---- MODULE Spec2Model ----
(***************************************************************************)
(* A model of job_scout_ai: the SQLite application/dedup store             *)
(* (database.py), the file cache (cache_manager.py), the AI layer          *)
(* (intelligence.py) and the fetchers that use the store                   *)
(* (job_api_search.py, job_scrapers.py).                                   *)
(*                                                                         *)
(* Every public method is one action.  The outcome of each external call   *)
(* (HTTP, AI provider, file system, SQLite) is an input of the action,     *)
(* drawn from a small set.  The variable "last" records the call that ran  *)
(* last: its arguments, what the environment answered, and what the method *)
(* returned or raised.                                                     *)
(***************************************************************************)
EXTENDS Integers, Sequences, FiniteSets, TLC

VARIABLES
    applications,     \* rows of table applications, in rowid order
    status_history,   \* rows of table status_history, in rowid order
    discovered_jobs,  \* rows of table discovered_jobs, in rowid order
    search_terms,     \* rows of table search_terms
    now,              \* the wall clock, in seconds
    cache,            \* the cache directory: cache key -> file content
    env,              \* which API keys / clients the process was started with
    last,             \* the call that ran last
    setAt,            \* history: cache key -> when set was last called on it
    procs,            \* the concurrent callers: process -> where it is in its call
    file              \* the one cache file the concurrent analyzers share

vars == <<applications, status_history, discovered_jobs, search_terms,
          now, cache, env, last, setAt, procs, file>>

dbVars == <<applications, status_history, discovered_jobs, search_terms>>

(***************************************************************************)
(* Bounds of the model.                                                    *)
(***************************************************************************)
\* seconds the clock may advance one at a time within a TTL period
MaxFine == 1
\* whole TTL periods the clock may advance
MaxPeriods == 1
\* rows status_history may hold
MaxHistory == 1
\* postings one scraper returns in one call
MaxFetch == 1
\* pages one JobAPISearch.search_jobs call may ask for (num_pages)
MaxPages == 2
\* requests the Indeed site is ready to answer in one call
MaxAnswers == 4

(***************************************************************************)
(* Python values, as far as the program looks at them: the type, the type  *)
(* of a dict's keys, the length (0 is falsy) and the fields the callers    *)
(* read.  A field a value does not have is listed in no "has".             *)
(***************************************************************************)
PyNone ==
    [type |-> "NoneType", keys |-> "-", size |-> 0, has |-> {},
     score |-> 0, verdict |-> "", strengths |-> <<>>, gaps |-> <<>>,
     queries |-> <<>>, queries_type |-> "list", location |-> "",
     primary_title |-> ""]

PyList(n) == [PyNone EXCEPT !.type = "list", !.size = n]

PyTuple(n) == [PyNone EXCEPT !.type = "tuple", !.size = n]

PyStr(n) == [PyNone EXCEPT !.type = "str", !.size = n]

PyDict(keytype, n) == [PyNone EXCEPT !.type = "dict", !.keys = keytype, !.size = n]

\* Python truthiness: None, empty containers and empty strings are falsy
Truthy(v) == v.type # "NoneType" /\ v.size > 0

(***************************************************************************)
(* The record of the last call.                                            *)
(***************************************************************************)
NoCall ==
    [op |-> "", arg |-> "", arg2 |-> "", fetched |-> {}, jobs |-> <<>>,
     id |-> 0, val |-> PyNone, raised |-> "", calls |-> <<>>,
     io |-> "", wr |-> "", path |-> "", at |-> 0]

\* The processes that share the store and the cache directory
NProcs == 2

Procs == 1..NProcs

\* A process that is in no call
NotCalled ==
    [pc |-> "idle", url |-> "", inserted |-> FALSE, logged |-> "", raised |-> "",
     doc |-> <<>>, pos |-> 0, result |-> <<>>]

\* No file at the cache path
NoCacheFile == [exists |-> FALSE, chunks |-> <<>>]

(***************************************************************************)
(* database.py                                                             *)
(***************************************************************************)
Urls == {"", "u1", "u2"}

Statuses == {"submitted", "interview"}

Terms == {"safety engineer"}

TermTypes == {"title", "location"}

RECURSIVE SeqToSet(_)
SeqToSet(s) == IF s = <<>> THEN {} ELSE {Head(s)} \cup SeqToSet(Tail(s))

\* SELECT id FROM <table> WHERE job_url = ?
SelectByUrl(table, url) == {i \in 1..Len(table) : table[i].job_url = url}

\* ApplicationDatabase.application_exists
application_exists(url) == SelectByUrl(applications, url) # {}

\* job_seen looking at discovered_jobs only
JobSeenDiscoveredOnly(apps, disc, url) == SelectByUrl(disc, url) # {}

\* ApplicationDatabase.job_seen on given tables: applications first, then
\* discovered_jobs
JobSeenIn(apps, disc, url) ==
    IF SelectByUrl(apps, url) # {}
    THEN TRUE
    ELSE SelectByUrl(disc, url) # {}

job_seen(url) == JobSeenIn(applications, discovered_jobs, url)

\* INSERT OR REPLACE in place of INSERT OR IGNORE: the conflicting row is
\* deleted and a new one, with a new id and date, is inserted
InsertOrReplaceDiscovered(disc, url, date) ==
    LET kept == SelectSeq(disc, LAMBDA r : r.job_url # url) IN
    Append(kept, [id |-> Len(disc) + 1, job_url |-> url, discovered_date |-> date])

\* INSERT OR IGNORE INTO discovered_jobs: UNIQUE(job_url) makes a second
\* insert of the same url a no-op; ids are AUTOINCREMENT
InsertDiscovered(disc, url, date) ==
    IF SelectByUrl(disc, url) # {}
    THEN disc
    ELSE Append(disc, [id |-> Len(disc) + 1, job_url |-> url,
                       discovered_date |-> date])

\* init_database re-creating the tables instead of CREATE TABLE IF NOT EXISTS
init_database_recreate ==
    /\ applications' = <<>>
    /\ status_history' = <<>>
    /\ discovered_jobs' = <<>>
    /\ search_terms' = {}
    /\ UNCHANGED <<now, cache, env, setAt, procs, file>>
    /\ last' = [NoCall EXCEPT !.op = "init_database"]

\* ApplicationDatabase.init_database: CREATE TABLE IF NOT EXISTS, four times
init_database ==
    /\ UNCHANGED <<dbVars, now, cache, env, setAt, procs, file>>
    /\ last' = [NoCall EXCEPT !.op = "init_database"]

\* ApplicationDatabase.add_application: one transaction inserting the
\* application and its first history row; IntegrityError (the url is there
\* already) and every other error (dbok = FALSE) return None
add_application(url, dbok) ==
    /\ Len(status_history) < MaxHistory
    /\ IF dbok /\ SelectByUrl(applications, url) = {}
       THEN /\ applications' =
                  Append(applications,
                         [id |-> Len(applications) + 1, job_url |-> url,
                          applied_date |-> now, status |-> "submitted"])
            /\ status_history' =
                  Append(status_history,
                         [application_id |-> Len(applications) + 1,
                          status |-> "submitted"])
            /\ last' = [NoCall EXCEPT !.op = "add_application", !.arg = url,
                                      !.id = Len(applications) + 1]
       ELSE /\ UNCHANGED <<applications, status_history>>
            /\ last' = [NoCall EXCEPT !.op = "add_application", !.arg = url,
                                      !.id = 0,
                                      !.io = IF dbok THEN "" ELSE "dberror"]
    /\ UNCHANGED <<discovered_jobs, search_terms, now, cache, env, setAt, procs, file>>

\* ApplicationDatabase.add_discovered_job: every error is logged, not raised
add_discovered_job(url, dbok) ==
    /\ discovered_jobs' =
          IF dbok THEN InsertDiscovered(discovered_jobs, url, now)
                  ELSE discovered_jobs
    /\ last' = [NoCall EXCEPT !.op = "add_discovered_job", !.arg = url,
                              !.io = IF dbok THEN "" ELSE "dberror"]
    /\ UNCHANGED <<applications, status_history, search_terms, now, cache, env, setAt, procs, file>>

\* add_discovered_job run by several processes on one database file, one
\* statement at a time.  SQLite lets one connection at a time hold the write
\* lock: the INSERT takes it and the commit releases it
DatabaseIsLocked == "database is locked"

\* The process that holds the write lock: it has executed and not committed
WriteLockHeld(ps, p) == \E q \in Procs \ {p} : ps[q].pc = "commit"

\* No try around the body: whatever a statement raises reaches the caller
AddDiscoveredRaisesAll(err) == err

\* except Exception as e: logger.error(...): nothing reaches the caller
AddDiscoveredRaises(err) == ""

\* conn = sqlite3.connect(self.db_path); cursor = conn.cursor()
adj_connect(p) ==
    /\ procs[p].pc = "connect"
    /\ procs' = [procs EXCEPT ![p].pc = "execute"]
    /\ UNCHANGED <<dbVars, now, cache, env, last, setAt, file>>

\* cursor.execute('INSERT OR IGNORE ...') with the write lock free: the row is
\* inserted in the transaction unless a committed row has the url
adj_execute(p) ==
    /\ procs[p].pc = "execute"
    /\ ~WriteLockHeld(procs, p)
    /\ procs' = [procs EXCEPT ![p].pc = "commit",
                              ![p].inserted = (SelectByUrl(discovered_jobs, procs[p].url) = {})]
    /\ UNCHANGED <<dbVars, now, cache, env, last, setAt, file>>

\* cursor.execute while another connection holds the write lock for longer
\* than the busy timeout: sqlite3.OperationalError, caught and logged
adj_locked(p) ==
    /\ procs[p].pc = "execute"
    /\ WriteLockHeld(procs, p)
    /\ procs' = [procs EXCEPT ![p].pc = "done",
                              ![p].logged = DatabaseIsLocked,
                              ![p].raised = AddDiscoveredRaises(DatabaseIsLocked)]
    /\ UNCHANGED <<dbVars, now, cache, env, last, setAt, file>>

\* conn.commit(): the inserted row becomes visible, the lock is released
adj_commit(p) ==
    /\ procs[p].pc = "commit"
    /\ discovered_jobs' =
          IF procs[p].inserted
          THEN Append(discovered_jobs,
                      [id |-> Len(discovered_jobs) + 1, job_url |-> procs[p].url,
                       discovered_date |-> now])
          ELSE discovered_jobs
    /\ procs' = [procs EXCEPT ![p].pc = "close"]
    /\ UNCHANGED <<applications, status_history, search_terms, now, cache, env,
                   last, setAt, file>>

\* conn.close(), and the return
adj_close(p) ==
    /\ procs[p].pc = "close"
    /\ procs' = [procs EXCEPT ![p].pc = "done"]
    /\ UNCHANGED <<dbVars, now, cache, env, last, setAt, file>>

\* The loop body of search_all_platforms and of JobAPISearch.search_jobs on
\* one posting, run by several processes on one database: the check
\* "if not db.job_seen(job['url'])" reads the committed rows
scout_check(p) ==
    /\ procs[p].pc = "check"
    /\ procs' = [procs EXCEPT ![p].pc = IF job_seen(procs[p].url)
                                        THEN "done" ELSE "append"]
    /\ UNCHANGED <<dbVars, now, cache, env, last, setAt, file>>

\* all_jobs.append(job); db.add_discovered_job(job['url']) follows, in the
\* steps adj_connect to adj_close
scout_append(p) ==
    /\ procs[p].pc = "append"
    /\ procs' = [procs EXCEPT ![p].pc = "connect", ![p].result = <<procs[p].url>>]
    /\ UNCHANGED <<dbVars, now, cache, env, last, setAt, file>>

\* ApplicationDatabase.add_search_term: INSERT OR IGNORE, UNIQUE(term, term_type)
add_search_term(term, term_type) ==
    /\ search_terms' = search_terms \cup
                          {[term |-> term, term_type |-> term_type, is_active |-> 1]}
    /\ last' = [NoCall EXCEPT !.op = "add_search_term"]
    /\ UNCHANGED <<applications, status_history, discovered_jobs, now, cache, env, setAt, procs, file>>

\* ApplicationDatabase.delete_search_term: DELETE FROM search_terms WHERE term = ?
delete_search_term(term) ==
    /\ search_terms' = {r \in search_terms : r.term # term}
    /\ last' = [NoCall EXCEPT !.op = "delete_search_term"]
    /\ UNCHANGED <<applications, status_history, discovered_jobs, now, cache, env, setAt, procs, file>>

\* ApplicationDatabase.get_search_terms
get_search_terms(term_type) ==
    {r.term : r \in {q \in search_terms : q.term_type = term_type /\ q.is_active = 1}}

\* ApplicationDatabase.update_status: UPDATE applications SET status WHERE id,
\* then a history row (written also when no application has that id)
update_status(application_id, status) ==
    /\ Len(status_history) < MaxHistory
    /\ applications' =
          [i \in 1..Len(applications) |->
              IF applications[i].id = application_id
              THEN [applications[i] EXCEPT !.status = status]
              ELSE applications[i]]
    /\ status_history' =
          Append(status_history,
                 [application_id |-> application_id, status |-> status])
    /\ last' = [NoCall EXCEPT !.op = "update_status"]
    /\ UNCHANGED <<discovered_jobs, search_terms, now, cache, env, setAt, procs, file>>

(***************************************************************************)
(* The clock: time.time() / datetime.now().                                *)
(***************************************************************************)
expiry_seconds == 86400

Tick(d) ==
    /\ \/ d = 1 /\ now % expiry_seconds < MaxFine
       \/ d = expiry_seconds /\ now \div expiry_seconds < MaxPeriods
    /\ now' = now + d
    /\ UNCHANGED <<dbVars, cache, env, last, setAt, procs, file>>

(***************************************************************************)
(* job_api_search.py and job_scrapers.py                                   *)
(***************************************************************************)
\* A scraper's or the API's answer: the urls of the postings, in page order
FetchResults == UNION {[1..n -> Urls] : n \in 0..MaxFetch}

\* The names job_api_search.py binds at module level: its imports and its
\* own definitions.  "database" is not one of them
ModuleNames ==
    {"os", "logging", "requests", "List", "Dict", "Optional", "load_dotenv",
     "config", "logger", "RAPIDAPI_KEY", "JSEARCH_API_URL", "JobAPISearch",
     "search_jobs_api", "search_multiple_titles"}

\* "db = database.get_db()" in search_jobs: evaluating a name the module does
\* not bind raises NameError, before the first page is requested
ApiSearchRaises == IF "database" \in ModuleNames THEN "" ELSE "NameError"

\* A record of the API's "data": its two links, "" for one that is missing
ApiRecords ==
    {[job_apply_link |-> "u1", job_google_link |-> ""],
     [job_apply_link |-> "",   job_google_link |-> "u2"],
     [job_apply_link |-> "",   job_google_link |-> ""]}

\* url = job.get("job_apply_link") or job.get("job_google_link", "")
ApiUrl(job) ==
    IF job.job_apply_link # "" THEN job.job_apply_link ELSE job.job_google_link

RECURSIVE ApiUrls(_)
ApiUrls(data) ==
    IF data = <<>> THEN <<>> ELSE <<ApiUrl(Head(data))>> \o ApiUrls(Tail(data))

\* What one requests.get of search_jobs does: status 0 stands for an
\* exception (timeout, connection error), else the status code and the data
PageResponses ==
    {[status |-> 200, data |-> <<[job_apply_link |-> "u1", job_google_link |-> ""],
                               [job_apply_link |-> "u1", job_google_link |-> ""]>>],
     [status |-> 200, data |-> <<[job_apply_link |-> "",   job_google_link |-> "u2"],
                               [job_apply_link |-> "",   job_google_link |-> ""]>>],
     [status |-> 429, data |-> <<>>],
     [status |-> 500, data |-> <<>>],
     [status |-> 0,   data |-> <<>>]}

\* what the API answers to the requests for pages 1..num_pages, if asked
ApiPages == [1..MaxPages -> PageResponses]

\* The keys of the dict each source builds for a posting: standardized_job of
\* JobAPISearch.search_jobs, and the job literals of LinkedInScraper and
\* IndeedScraper, which are alike
PostingKeys(platform) ==
    IF platform = "JSearch API"
    THEN {"title", "company", "location", "url", "description", "platform",
          "job_type", "posted_date"}
    ELSE {"title", "company", "url", "platform", "location", "description"}

\* db.add_discovered_job(url) as the callers see it: the row is inserted,
\* or the insert fails (the database is locked, the disk is full) and the
\* error is logged inside add_discovered_job
RecordDiscovered(disc, url, date, dbok) ==
    IF dbok THEN InsertDiscovered(disc, url, date) ELSE disc

\* The loop of search_all_platforms over one scraper's jobs, and the loop of
\* JobAPISearch.search_jobs over one page's records: a posting whose url is
\* not seen is appended to the result and its url is recorded
RECURSIVE ScoutPlatform(_, _, _, _, _, _, _)
ScoutPlatform(apps, disc, jobs, platform, date, out, dbok) ==
    IF jobs = <<>>
    THEN [disc |-> disc, out |-> out]
    ELSE LET url == Head(jobs) IN
         IF ~JobSeenIn(apps, disc, url)
         THEN ScoutPlatform(apps, RecordDiscovered(disc, url, date, dbok),
                            Tail(jobs), platform, date,
                            Append(out, [url |-> url, platform |-> platform]),
                            dbok)
         ELSE ScoutPlatform(apps, disc, Tail(jobs), platform, date, out, dbok)

\* The loop of search_jobs over the pages, from page k on: a 200 page adds
\* its unseen postings and records them, 429 and an exception end the loop,
\* any other status goes on to the next page.  "requests" counts the
\* requests sent
RECURSIVE PagesLoop(_, _, _, _, _, _, _)
PagesLoop(apps, disc, pages, k, date, out, dbok) ==
    IF k > Len(pages)
    THEN [jobs |-> out, disc |-> disc, requests |-> k - 1, raised |-> ""]
    ELSE LET response == pages[k] IN
         IF response.status = 0 \/ response.status = 429
         THEN [jobs |-> out, disc |-> disc, requests |-> k, raised |-> ""]
         ELSE IF response.status = 200
         THEN LET after == ScoutPlatform(apps, disc, ApiUrls(response.data),
                                         "JSearch API", date, out, dbok)
              IN  PagesLoop(apps, after.disc, pages, k + 1, date, after.out, dbok)
         ELSE PagesLoop(apps, disc, pages, k + 1, date, out, dbok)

\* JobAPISearch.search_jobs as a function of the configuration, the tables
\* and the API's answers: what it returns, the table discovered_jobs
\* afterwards, the requests it sent and what it raises
ApiSearch(hasKey, apps, disc, pages, date, dbok) ==
    IF ~hasKey
    THEN [jobs |-> <<>>, disc |-> disc, requests |-> 0, raised |-> ""]
    ELSE IF ApiSearchRaises # ""
    THEN [jobs |-> <<>>, disc |-> disc, requests |-> 0, raised |-> ApiSearchRaises]
    ELSE PagesLoop(apps, disc, pages, 1, date, <<>>, dbok)

\* last.io of a search: "dberror" when an add_discovered_job of the call
\* failed
StoreErrors(jobs, dbok) == IF jobs # <<>> /\ ~dbok THEN "dberror" ELSE ""

\* JobAPISearch.search_jobs, called directly: an exception reaches the
\* caller.  last.id is the number of requests sent
search_jobs(pages, dbok) ==
    LET r == ApiSearch(env.rapidapi, applications, discovered_jobs, pages, now, dbok) IN
    /\ discovered_jobs' = r.disc
    /\ last' = [NoCall EXCEPT !.op = "search_jobs", !.arg = pages,
                              !.jobs = r.jobs, !.id = r.requests,
                              !.raised = r.raised,
                              !.io = StoreErrors(r.jobs, dbok)]
    /\ UNCHANGED <<applications, status_history, search_terms, now, cache, env, setAt, procs, file>>

\* search_jobs_api: one JobAPISearch.search_jobs call with num_pages = 1
search_jobs_api(page, dbok) ==
    LET r == ApiSearch(env.rapidapi, applications, discovered_jobs, <<page>>, now, dbok) IN
    /\ discovered_jobs' = r.disc
    /\ last' = [NoCall EXCEPT !.op = "search_jobs_api", !.arg = <<page>>,
                              !.jobs = r.jobs, !.id = r.requests,
                              !.raised = r.raised,
                              !.io = StoreErrors(r.jobs, dbok)]
    /\ UNCHANGED <<applications, status_history, search_terms, now, cache, env, setAt, procs, file>>

\* the first posting of each url that is not empty, in order
RECURSIVE UniqueByUrl(_, _)
UniqueByUrl(jobs, kept) ==
    IF jobs = <<>> THEN kept
    ELSE IF Head(jobs).url = "" \/ \E i \in 1..Len(kept) : kept[i].url = Head(jobs).url
    THEN UniqueByUrl(Tail(jobs), kept)
    ELSE UniqueByUrl(Tail(jobs), Append(kept, Head(jobs)))

\* The loop of search_multiple_titles over titles and locations: one
\* search_jobs call of one page each; the first exception ends it
RECURSIVE TitlesLoop(_, _, _, _, _, _, _)
TitlesLoop(hasKey, apps, disc, searches, date, acc, dbok) ==
    IF searches = <<>>
    THEN [jobs |-> UniqueByUrl(acc.jobs, <<>>), disc |-> disc,
          requests |-> acc.requests, raised |-> ""]
    ELSE LET r == ApiSearch(hasKey, apps, disc, <<Head(searches)>>, date, dbok) IN
         IF r.raised # ""
         THEN [jobs |-> <<>>, disc |-> r.disc,
               requests |-> acc.requests + r.requests, raised |-> r.raised]
         ELSE TitlesLoop(hasKey, apps, r.disc, Tail(searches), date,
                         [jobs |-> acc.jobs \o r.jobs,
                          requests |-> acc.requests + r.requests], dbok)

\* search_multiple_titles, with one answer of the API per (title, location)
search_multiple_titles(searches, dbok) ==
    LET r == TitlesLoop(env.rapidapi, applications, discovered_jobs, searches,
                        now, [jobs |-> <<>>, requests |-> 0], dbok) IN
    /\ discovered_jobs' = r.disc
    /\ last' = [NoCall EXCEPT !.op = "search_multiple_titles", !.arg = searches,
                              !.jobs = r.jobs, !.id = r.requests,
                              !.raised = r.raised,
                              !.io = StoreErrors(r.jobs, dbok)]
    /\ UNCHANGED <<applications, status_history, search_terms, now, cache, env, setAt, procs, file>>

\* What one source did in a search_all_platforms call: it returned, or it
\* raised something
Invoked(source, raised) == [source |-> source, raised |-> raised]

\* One scraper of the loop of search_all_platforms with no try around it: an
\* exception of scraper.search_jobs leaves the loop and the function
ScoutUncaught(acc, apps, source, platform, jobs, raises, date, dbok) ==
    IF acc.raised # "" THEN acc
    ELSE IF raises # ""
    THEN [acc EXCEPT !.raised = raises,
                     !.calls = Append(@, Invoked(source, raises))]
    ELSE LET after == ScoutPlatform(apps, acc.disc, jobs, platform, date,
                                    acc.jobs, dbok)
         IN  [acc EXCEPT !.disc = after.disc, !.jobs = after.out,
                         !.fetched = @ \cup SeqToSet(jobs),
                         !.calls = Append(@, Invoked(source, ""))]

\* One scraper of the loop of search_all_platforms: scraper.search_jobs and
\* the loop over its jobs are in a try whose handler logs the exception, so
\* the next scraper is called whatever this one did
ScoutOrCatch(acc, apps, source, platform, jobs, raises, date, dbok) ==
    IF raises # ""
    THEN [acc EXCEPT !.calls = Append(@, Invoked(source, raises))]
    ELSE LET after == ScoutPlatform(apps, acc.disc, jobs, platform, date,
                                    acc.jobs, dbok)
         IN  [acc EXCEPT !.disc = after.disc, !.jobs = after.out,
                         !.fetched = @ \cup SeqToSet(jobs),
                         !.calls = Append(@, Invoked(source, ""))]

\* JobAggregator.search_all_platforms as a function of the tables and of
\* what the sources do: the API first (its exception is caught and logged),
\* then the scrapers in the order linkedin, indeed, glassdoor, ziprecruiter;
\* the last two return no postings.  lraises is what LinkedInScraper raises
\* (when quitting the driver fails), "" if nothing
SearchAllPlatforms(hasKey, apps, disc, pages, linkedin, lraises, indeed, date, dbok) ==
    LET api == ApiSearch(hasKey, apps, disc, pages, date, dbok)
        a0  == [jobs |-> api.jobs, disc |-> api.disc, raised |-> "",
                fetched |-> {}, calls |-> <<Invoked("api", api.raised)>>]
        a1  == ScoutOrCatch(a0, apps, "linkedin", "LinkedIn", linkedin, lraises, date, dbok)
        a2  == ScoutOrCatch(a1, apps, "indeed", "Indeed", indeed, "", date, dbok)
        a3  == ScoutOrCatch(a2, apps, "glassdoor", "Glassdoor", <<>>, "", date, dbok)
        a4  == ScoutOrCatch(a3, apps, "ziprecruiter", "ZipRecruiter", <<>>, "", date, dbok)
    IN  IF a4.raised # "" THEN [a4 EXCEPT !.jobs = <<>>] ELSE a4

search_all_platforms(pages, linkedin, lraises, indeed, dbok) ==
    \E r \in {SearchAllPlatforms(env.rapidapi, applications, discovered_jobs,
                                 pages, linkedin, lraises, indeed, now, dbok)} :
        /\ discovered_jobs' = r.disc
        /\ last' = [NoCall EXCEPT !.op = "search_all_platforms",
                                  !.fetched = r.fetched,
                                  !.jobs = r.jobs,
                                  !.calls = r.calls,
                                  !.raised = r.raised,
                                  !.io = StoreErrors(r.jobs, dbok)]
        /\ UNCHANGED <<applications, status_history, search_terms, now, cache, env, setAt, procs, file>>

\* dict comprehension {job['url']: job for job in all_jobs if job.get('url')}
\* and list(values()): one posting per url that is not empty, at the place
\* of the url's first posting and with the content of its last
RECURSIVE LastOf(_, _)
LastOf(jobs, url) ==
    IF jobs[Len(jobs)].url = url THEN jobs[Len(jobs)]
    ELSE LastOf(SubSeq(jobs, 1, Len(jobs) - 1), url)

RECURSIVE UniqueJobs(_, _, _)
UniqueJobs(all_jobs, rest, kept) ==
    IF rest = <<>> THEN kept
    ELSE IF Head(rest).url = "" \/ \E i \in 1..Len(kept) : kept[i].url = Head(rest).url
    THEN UniqueJobs(all_jobs, Tail(rest), kept)
    ELSE UniqueJobs(all_jobs, Tail(rest), Append(kept, LastOf(all_jobs, Head(rest).url)))

\* The loop of the module's search_jobs over titles and locations: one
\* search_all_platforms call each (time.sleep(5) after it)
RECURSIVE DiscoverLoop(_, _, _, _, _, _)
DiscoverLoop(hasKey, apps, searches, date, dbok, acc) ==
    IF searches = <<>> THEN acc
    ELSE LET r == SearchAllPlatforms(hasKey, apps, acc.disc, Head(searches).pages,
                                     Head(searches).linkedin, "",
                                     Head(searches).indeed, date, dbok)
         IN  DiscoverLoop(hasKey, apps, Tail(searches), date, dbok,
                          [jobs |-> acc.jobs \o r.jobs, disc |-> r.disc,
                           fetched |-> acc.fetched \cup r.fetched])

\* job_scrapers.search_jobs(job_titles, locations), with what the sources
\* do in each search
discover_jobs(searches, dbok) ==
    LET r == DiscoverLoop(env.rapidapi, applications, searches, now, dbok,
                          [jobs |-> <<>>, disc |-> discovered_jobs, fetched |-> {}])
    IN  /\ discovered_jobs' = r.disc
        /\ last' = [NoCall EXCEPT !.op = "discover_jobs",
                                  !.arg = searches,
                                  !.fetched = r.fetched,
                                  !.jobs = UniqueJobs(r.jobs, r.jobs, <<>>),
                                  !.io = StoreErrors(r.jobs, dbok)]
        /\ UNCHANGED <<applications, status_history, search_terms, now, cache, env, setAt, procs, file>>

(***************************************************************************)
(* job_scrapers.py: IndeedScraper.search_jobs                              *)
(***************************************************************************)
\* max_retries = 3
max_retries == 3

\* What the steps of one call leave behind, in order: a request sent, or a
\* time.sleep of secs seconds
Request == [ev |-> "request", secs |-> 0]

Sleep(secs) == [ev |-> "sleep", secs |-> secs]

\* What find returns: <<>> for None, <<text>> for a tag with that text.  A
\* tag is truthy whatever its text; a list is truthy when it is not empty
\* "a or b" taking the later alternative whenever it is truthy
OrLater(a, b) == IF b # <<>> THEN b ELSE a

\* "a or b"
Or(a, b) == IF a # <<>> THEN a ELSE b

\* Cards of a results page.  title and company hold what each of the three
\* candidate selectors of the field finds in the card; link is what
\* "title_elem.find('a') or card.find('a', attrs={'data-jk': True})" finds,
\* as <<its data-jk>>; data_jk is the card's own data-jk
FullCard ==
    [title |-> << <<"Engineer">>, <<>>, <<>> >>,
     company |-> << <<"Acme">>, <<>>, <<>> >>,
     link |-> <<"j1">>, data_jk |-> ""]

DriftCard ==
    [title |-> << <<>>, <<"">>, <<"Lead">> >>,
     company |-> << <<>>, <<>>, <<"Bolt">> >>,
     link |-> <<>>, data_jk |-> ""]

NoCompanyCard ==
    [title |-> << <<"Intern">>, <<>>, <<>> >>,
     company |-> << <<>>, <<>>, <<>> >>,
     link |-> <<>>, data_jk |-> "j2"]

\* job_id = link.get('data-jk', '') if link else card.get('data-jk', '')
JobId(card) == IF card.link # <<>> THEN card.link[1] ELSE card.data_jk

\* job_url = f"https://www.indeed.com/viewjob?jk={job_id}" if job_id else ""
IndeedJobUrl(job_id) ==
    IF job_id # "" THEN "https://www.indeed.com/viewjob?jk=" \o job_id ELSE ""

\* The body of "for card in job_cards": the postings one card adds to jobs
ParseCard(card) ==
    LET title_elem   == Or(Or(card.title[1], card.title[2]), card.title[3])
        company_elem == Or(Or(card.company[1], card.company[2]), card.company[3])
    IN  IF title_elem # <<>> /\ company_elem # <<>>
        THEN << [title |-> title_elem[1], company |-> company_elem[1],
                 url |-> IndeedJobUrl(JobId(card)), platform |-> "Indeed"] >>
        ELSE <<>>

RECURSIVE ParseCards(_)
ParseCards(cards) ==
    IF cards = <<>> THEN <<>>
    ELSE ParseCard(Head(cards)) \o ParseCards(Tail(cards))

\* job_cards[:limit]
Limit(cards, limit) == SubSeq(cards, 1, IF Len(cards) < limit THEN Len(cards) ELSE limit)

\* What the three selectors of the card list find in a page, in their order
IndeedPages ==
    {<< <<FullCard, NoCompanyCard>>, <<DriftCard>>, <<>> >>,
     << <<>>, <<>>, <<DriftCard, FullCard>> >>,
     << <<NoCompanyCard>>, <<FullCard>>, <<>> >>,
     << <<>>, <<>>, <<>> >>}

\* What one requests.get of the scraper does: it raises exc, or it returns
\* a response with a status and, for 200, a page
IndeedResponses ==
    {[status |-> 200, exc |-> "", sel |-> page] : page \in IndeedPages}
    \cup {[status |-> st, exc |-> "", sel |-> << <<>>, <<>>, <<>> >>] : st \in {429, 500}}
    \cup {[status |-> 0, exc |-> e, sel |-> << <<>>, <<>>, <<>> >>] :
             e \in {"Timeout", "ConnectionError"}}

\* what the site does at each request it may get
IndeedAnswers == [1..MaxAnswers -> IndeedResponses]

\* limit, the postings wanted
IndeedLimits == {1, 2}

\* "for attempt in range(max_retries)" going on for as long as the site
\* answers
RetryWhileAnswered(answers, attempt) == attempt < Len(answers)

\* for attempt in range(max_retries)
RetryLeft(answers, attempt) == attempt < max_retries

\* time.sleep(5) after every 429
Backoff429Flat(attempt) == 5

\* time.sleep(5 * (attempt + 1)) after a 429
Backoff429(attempt) == 5 * (attempt + 1)

\* a retry that never sleeps
NoRetryDelay(attempt) == 0

\* "if attempt < max_retries - 1: time.sleep(3)" after a timeout, another
\* exception, a status other than 200 and 429, or a page without cards;
\* 0 for no sleep
RetryDelay(attempt) == IF attempt < max_retries - 1 THEN 3 ELSE 0

\* The retry loop from attempt on (attempts count from 0): the postings it
\* ends with and the requests and sleeps it made
RECURSIVE IndeedLoop(_, _, _, _)
IndeedLoop(answers, limit, attempt, trace) ==
    IF ~RetryLeft(answers, attempt)
    THEN [jobs |-> <<>>, trace |-> trace]
    ELSE LET response == answers[attempt + 1]
             sent == Append(trace, Request)
             again(secs) ==
                 IndeedLoop(answers, limit, attempt + 1,
                            IF secs > 0 THEN Append(sent, Sleep(secs)) ELSE sent)
         IN  IF response.exc # ""
             THEN again(RetryDelay(attempt))
             ELSE IF response.status = 200
             THEN LET job_cards == Or(Or(response.sel[1], response.sel[2]),
                                      response.sel[3])
                  IN  IF job_cards = <<>> /\ attempt < max_retries - 1
                      THEN again(3)
                      ELSE [jobs |-> ParseCards(Limit(job_cards, limit)),
                            trace |-> sent]
             ELSE IF response.status = 429
             THEN again(Backoff429(attempt))
             ELSE again(RetryDelay(attempt))

\* IndeedScraper.search_jobs: the loop, then time.sleep(2); every exception
\* of the loop is caught in it
IndeedSearch(answers, limit) ==
    LET r == IndeedLoop(answers, limit, 0, <<>>) IN
    [jobs |-> r.jobs, trace |-> Append(r.trace, Sleep(2)), raised |-> ""]

\* the requests among the steps of a call
Requests(trace) == {i \in 1..Len(trace) : trace[i].ev = "request"}

\* IndeedScraper.search_jobs, called directly.  last.calls holds the requests
\* and sleeps of the call, last.id the number of requests
indeed_search_jobs(answers, limit) ==
    LET r == IndeedSearch(answers, limit) IN
    /\ last' = [NoCall EXCEPT !.op = "indeed_search_jobs", !.arg = answers,
                              !.arg2 = limit, !.jobs = r.jobs,
                              !.calls = r.trace,
                              !.id = Cardinality(Requests(r.trace)),
                              !.raised = r.raised]
    /\ UNCHANGED <<dbVars, now, cache, env, setAt, procs, file>>

(***************************************************************************)
(* cache_manager.py                                                        *)
(***************************************************************************)
\* json.dump of a Python value: a tuple is written as an array like a list,
\* and the keys of a dict are written as strings
JsonDump(v) ==
    [v EXCEPT !.type = CASE v.type = "dict"     -> "object"
                         [] v.type = "list"     -> "array"
                         [] v.type = "tuple"    -> "array"
                         [] v.type = "str"      -> "string"
                         [] OTHER               -> "null",
              !.keys = IF v.type = "dict" THEN "str" ELSE "-"]

\* json.load of a JSON value: an array becomes a list, an object a dict
JsonLoad(j) ==
    [j EXCEPT !.type = CASE j.type = "object"   -> "dict"
                         [] j.type = "array"    -> "list"
                         [] j.type = "string"   -> "str"
                         [] OTHER               -> "NoneType"]

\* A cache file: missing, unreadable as JSON, or {"timestamp", "value"}
NoFile == [st |-> "absent", timestamp |-> 0, value |-> JsonDump(PyNone)]

CorruptFile == [st |-> "corrupt", timestamp |-> 0, value |-> JsonDump(PyNone)]

\* CacheManager._get_cache_path: the md5 of the key names the file; the model
\* takes md5 to be injective and names the file by the key
_get_cache_path(key) == key

\* get without the expiry check
CacheGetNoExpiry(c, key, t, readok) ==
    LET f == c[key] IN
    IF f.st # "ok" \/ ~readok THEN PyNone ELSE JsonLoad(f.value)

\* CacheManager.get: None when the file is missing, cannot be read or parsed
\* (readok = FALSE or a corrupt file), or is older than expiry_seconds
CacheGet(c, key, t, readok) ==
    LET f == c[_get_cache_path(key)] IN
    IF f.st = "absent" THEN PyNone
    ELSE IF ~readok \/ f.st = "corrupt" THEN PyNone
    ELSE IF t - f.timestamp > expiry_seconds THEN PyNone
    ELSE JsonLoad(f.value)

\* CacheManager.set: wr = "ok" writes the file; "open_fails" leaves the old
\* file; "dump_fails" leaves the truncated file open(path, 'w') made.  No
\* exception leaves the method
WriteOutcomes == {"ok", "open_fails", "dump_fails"}

\* set that writes nothing
CacheSetNothing(c, key, value, t, wr) == c

\* set that keeps an entry that is already there
CacheSetKeepFirst(c, key, value, t, wr) ==
    IF wr = "ok" /\ c[key].st # "ok"
    THEN [c EXCEPT ![key] = [st |-> "ok", timestamp |-> t, value |-> JsonDump(value)]]
    ELSE c

CacheSet(c, key, value, t, wr) ==
    CASE wr = "ok" ->
           [c EXCEPT ![_get_cache_path(key)] =
                [st |-> "ok", timestamp |-> t, value |-> JsonDump(value)]]
      [] wr = "open_fails" -> c
      [] OTHER -> [c EXCEPT ![_get_cache_path(key)] = CorruptFile]

\* a str that str.encode() cannot encode as UTF-8, and so raises on
LoneSurrogate == "\\ud800"

Unencodable == {LoneSurrogate, "scout_" \o LoneSurrogate}

\* key.encode() in _get_cache_path, which get and set call outside their try
EncodeRaises(key) == IF key \in Unencodable THEN "UnicodeEncodeError" ELSE ""

\* the outcome of the read a get attempted: none when there is no file
ReadDone(c, key, readok) ==
    IF key \in Unencodable \/ readok THEN ""
    ELSE IF c[_get_cache_path(key)].st = "absent" THEN "" ELSE "read_fails"

\* what CacheManager.set raises: what the write raises is swallowed
CacheSetRaises(key, wr) == EncodeRaises(key)

\* what CacheManager.get raises: what the read raises is swallowed
CacheGetRaises(key, readok) == EncodeRaises(key)

DirectKeys == {"k1", "k2"}

\* the values the cache is exercised with
DirectValues == {PyList(2), PyTuple(2), PyDict("int", 1)}

\* CacheManager.get, called directly
cache_get(key, readok) ==
    /\ last' = [NoCall EXCEPT !.op = "get", !.arg = key, !.at = now,
                              !.val = IF CacheGetRaises(key, readok) # ""
                                      THEN PyNone
                                      ELSE CacheGet(cache, key, now, readok),
                              !.raised = CacheGetRaises(key, readok),
                              !.io = IF readok THEN "" ELSE "read_fails"]
    /\ UNCHANGED <<dbVars, now, cache, env, setAt, procs, file>>

\* CacheManager.set, called directly
cache_set(key, value, wr) ==
    /\ IF CacheSetRaises(key, wr) # ""
       THEN UNCHANGED <<cache, setAt, procs, file>>
       ELSE /\ cache' = CacheSet(cache, key, value, now, wr)
            /\ setAt' = [setAt EXCEPT ![key] = now]
    /\ last' = [NoCall EXCEPT !.op = "set", !.arg = key, !.at = now,
                              !.val = value,
                              !.raised = CacheSetRaises(key, wr), !.wr = wr]
    /\ UNCHANGED <<dbVars, now, env, procs, file>>

(***************************************************************************)
(* intelligence.py                                                         *)
(*                                                                         *)
(* A provider's text is the sequence of the pieces that "```" separates    *)
(* (what text.split("```") returns); a piece is a sequence of tokens: the  *)
(* word "json", white space, or a payload.                                 *)
(***************************************************************************)
WhiteSpace == {" ", "\n"}

\* str.strip, on the left
RECURSIVE LStrip(_)
LStrip(toks) ==
    IF toks # <<>> /\ Head(toks) \in WhiteSpace THEN LStrip(Tail(toks)) ELSE toks

\* str.strip, on the right
RECURSIVE RStrip(_)
RStrip(toks) ==
    IF toks # <<>> /\ toks[Len(toks)] \in WhiteSpace
    THEN RStrip(SubSeq(toks, 1, Len(toks) - 1))
    ELSE toks

Strip(toks) == RStrip(LStrip(toks))

\* text.strip() on the whole text: the first piece loses its leading white
\* space and the last piece its trailing white space
StripText(text) ==
    [i \in 1..Len(text) |->
        LET l == IF i = 1 THEN LStrip(text[i]) ELSE text[i] IN
        IF i = Len(text) THEN RStrip(l) ELSE l]

\* The "robust JSON extraction" of analyze_match, extract_search_profile and
\* scout_jobs: with a fence in the text, the piece before the last fence,
\* without a leading "json\n" or "json"; then strip
ExtractPayload(text) ==
    LET content == StripText(text) IN
    IF Len(content) > 1
    THEN LET body == content[Len(content) - 1] IN
         Strip(IF Len(body) >= 2 /\ body[1] = "json" /\ body[2] = "\n"
               THEN SubSeq(body, 3, Len(body))
               ELSE IF Len(body) >= 1 /\ body[1] = "json"
               THEN SubSeq(body, 2, Len(body))
               ELSE body)
    ELSE Strip(content[1])

\* The extraction on its own; last.arg2 holds the payload handed to json.loads
extract_payload(text) ==
    /\ last' = [NoCall EXCEPT !.op = "extract_payload", !.arg = text,
                              !.arg2 = ExtractPayload(text)]
    /\ UNCHANGED <<dbVars, now, cache, env, setAt, procs, file>>

\* the JSON documents the providers answer with
MatchValue ==
    [PyDict("str", 4) EXCEPT !.has = {"score", "verdict", "strengths", "gaps"},
                             !.score = 85, !.verdict = "Strong fit",
                             !.strengths = <<"s1", "s2">>, !.gaps = <<"g1">>]

ProfileValue ==
    [PyDict("str", 3) EXCEPT !.has = {"queries", "location", "primary_title"},
                             !.queries = <<"q1", "q2">>, !.location = "Austin",
                             !.primary_title = "Safety Engineer"]

\* a profile whose "queries" is an empty list
ProfileNoQueries ==
    [PyDict("str", 2) EXCEPT !.has = {"queries", "primary_title"},
                             !.primary_title = "Safety Engineer"]

\* a profile whose "queries" is a string, not a list
ProfileStrQueries ==
    [PyDict("str", 1) EXCEPT !.has = {"queries"},
                             !.queries = <<"safety engineer, safety architect">>,
                             !.queries_type = "str"]

JobsValue == PyList(2)

\* {"jobs": [...]}: a dict that wraps the list
JobsWrapped == [PyDict("str", 1) EXCEPT !.has = {"jobs"}]

JsonDocs ==
    [d \in {"{match}", "{profile}", "{noqueries}", "{strqueries}", "{}",
            "[jobs]", "{jobs}", "[]"} |->
        CASE d = "{match}"     -> MatchValue
          [] d = "{profile}"   -> ProfileValue
          [] d = "{noqueries}" -> ProfileNoQueries
          [] d = "{strqueries}" -> ProfileStrQueries
          [] d = "{}"          -> PyDict("str", 0)
          [] d = "[jobs]"      -> JobsValue
          [] d = "{jobs}"      -> JobsWrapped
          [] OTHER             -> PyList(0)]

JSONDecodeError == "Expecting value: line 1 column 1 (char 0)"

\* json.loads: one JSON document and nothing else, or JSONDecodeError
JsonLoads(toks) ==
    IF Len(toks) = 1 /\ toks[1] \in DOMAIN JsonDocs
    THEN [ok |-> TRUE, val |-> JsonDocs[toks[1]], err |-> ""]
    ELSE [ok |-> FALSE, val |-> PyNone, err |-> JSONDecodeError]

\* What a provider call does: it returns a text or raises
Answers(doc) ==
    {[ok |-> TRUE, err |-> "", text |-> << <<doc>> >>],
     [ok |-> TRUE, err |-> "",
      text |-> << <<"Here", " ", "it", " ", "is:", "\n">>,
                  <<"json", "\n", doc, "\n">>, <<>> >>]}

NotJson == [ok |-> TRUE, err |-> "", text |-> << <<"Sorry,", " ", "no">> >>]

ModelNotFound == "Error code: 404 - the model does not exist"

QuotaExceeded == "429 quota exceeded"

Failures == {[ok |-> FALSE, err |-> e, text |-> <<>>] : e \in {ModelNotFound, QuotaExceeded}}

NoProvidersAvailable ==
    "No AI providers available (Gemini/OpenAI failed or not configured)."

\* _call_ai trying the backup first
CallAIBackupFirst(cfg, gem, oai) ==
    LET first == IF cfg.openai THEN <<[name |-> "openai", ok |-> oai.ok]>> ELSE <<>> IN
    IF cfg.openai /\ oai.ok
    THEN [calls |-> first, ok |-> TRUE, text |-> oai.text, err |-> ""]
    ELSE IF cfg.gemini
    THEN [calls |-> Append(first, [name |-> "gemini", ok |-> gem.ok]),
          ok |-> gem.ok, text |-> gem.text, err |-> gem.err]
    ELSE [calls |-> first, ok |-> FALSE, text |-> <<>>,
          err |-> NoProvidersAvailable]

\* JobIntelligence._call_ai: Gemini if there is a client, and its text if the
\* call returns; else OpenAI if there is a client, and its text or its
\* exception; else the "No AI providers available" exception.  gem and oai
\* are what the two providers answer if called; "calls" lists the calls made
\* and whether each returned
CallAI(cfg, gem, oai) ==
    LET tried == IF cfg.gemini THEN <<[name |-> "gemini", ok |-> gem.ok]>> ELSE <<>> IN
    IF cfg.gemini /\ gem.ok
    THEN [calls |-> tried, ok |-> TRUE, text |-> gem.text, err |-> ""]
    ELSE IF cfg.openai
    THEN [calls |-> Append(tried, [name |-> "openai", ok |-> oai.ok]),
          ok |-> oai.ok, text |-> oai.text, err |-> oai.err]
    ELSE [calls |-> tried, ok |-> FALSE, text |-> <<>>,
          err |-> NoProvidersAvailable]

\* hashlib.md5(...).hexdigest(): taken to be injective
Md5(str) == str

\* the cache key of analyze_match
MatchKey(resume_text, job_description) ==
    "match_v4_" \o Md5(resume_text \o job_description)

\* the cache key of extract_search_profile
ProfileKey(resume_text) == "profile_v4_" \o Md5(resume_text)

\* the cache key of scout_jobs
ScoutKey(search_query) == "scout_" \o search_query

\* what analyze_match returns when there is neither client
NoProviderResult ==
    [PyDict("str", 4) EXCEPT !.has = {"score", "verdict", "strengths", "gaps"},
                             !.score = 50,
                             !.verdict = "Intelligence engine not active."]

\* "404" in error_msg
Has404(msg) == msg = ModelNotFound

ModelMismatchVerdict ==
    "AI Model Mismatch: The model ID in your region/version might be different. I am attempting a live fix."

\* an except branch that answers as the no-provider branch does
ErrorResultAsNoProvider(error_msg) == NoProviderResult

\* what analyze_match returns from its except branch; the messages of the
\* model are shorter than the 100 characters error_msg[:100] keeps
ErrorResult(error_msg) ==
    [PyDict("str", 4) EXCEPT !.has = {"score", "verdict", "strengths", "gaps"},
                             !.score = 0,
                             !.verdict = IF Has404(error_msg)
                                         THEN ModelMismatchVerdict
                                         ELSE "AI Matcher Error: " \o error_msg,
                             !.strengths = <<"Wait for retry">>,
                             !.gaps = <<"API Quota / Model ID">>]

\* analyze_match storing the result of its except branch under the key
AnalyzeMatchCachingErrors(c, t, cfg, resume_text, job_description, gem, oai, readok, wr) ==
    LET cache_key   == MatchKey(resume_text, job_description)
        cached_data == CacheGet(c, cache_key, t, readok)
        ai          == CallAI(cfg, gem, oai)
        parsed      == JsonLoads(ExtractPayload(ai.text))
        out(v, c2, calls, path, exc, w) ==
            [val |-> v, cache |-> c2, calls |-> calls, path |-> path,
             raised |-> exc, io |-> ReadDone(c, cache_key, readok), wr |-> w]
    IN  IF CacheGetRaises(cache_key, readok) # ""
        THEN out(PyNone, c, <<>>, "raise",
                 CacheGetRaises(cache_key, readok), "")
        ELSE IF Truthy(cached_data)
        THEN out(cached_data, c, <<>>, "hit", "", "")
        ELSE IF ~cfg.gemini /\ ~cfg.openai
        THEN out(NoProviderResult, c, <<>>, "no_provider", "", "")
        ELSE IF ~ai.ok
        THEN out(ErrorResult(ai.err),
                 CacheSet(c, cache_key, ErrorResult(ai.err), t, "ok"),
                 ai.calls, "error", "", "")
        ELSE IF ~parsed.ok
        THEN out(ErrorResult(parsed.err),
                 CacheSet(c, cache_key, ErrorResult(parsed.err), t, "ok"),
                 ai.calls, "error", "", "")
        ELSE IF CacheSetRaises(cache_key, wr) # ""
        THEN out(ErrorResult(CacheSetRaises(cache_key, wr)), c, ai.calls,
                 "error", "", wr)
        ELSE out(parsed.val, CacheSet(c, cache_key, parsed.val, t, wr),
                 ai.calls, "fresh", "", wr)

\* JobIntelligence.analyze_match as a function of the cache, the clock, the
\* clients, the arguments and what the environment answers: the value
\* returned, the cache afterwards, the provider calls made, the return
\* statement taken, and the exception that left the method
AnalyzeMatch(c, t, cfg, resume_text, job_description, gem, oai, readok, wr) ==
    LET cache_key   == MatchKey(resume_text, job_description)
        cached_data == CacheGet(c, cache_key, t, readok)
        ai          == CallAI(cfg, gem, oai)
        parsed      == JsonLoads(ExtractPayload(ai.text))
        out(v, c2, calls, path, exc, w) ==
            [val |-> v, cache |-> c2, calls |-> calls, path |-> path,
             raised |-> exc, io |-> ReadDone(c, cache_key, readok), wr |-> w]
    IN  IF CacheGetRaises(cache_key, readok) # ""
        THEN out(PyNone, c, <<>>, "raise",
                 CacheGetRaises(cache_key, readok), "")
        ELSE IF Truthy(cached_data)
        THEN out(cached_data, c, <<>>, "hit", "", "")
        ELSE IF ~cfg.gemini /\ ~cfg.openai
        THEN out(NoProviderResult, c, <<>>, "no_provider", "", "")
        ELSE IF ~ai.ok
        THEN out(ErrorResult(ai.err), c, ai.calls, "error", "", "")
        ELSE IF ~parsed.ok
        THEN out(ErrorResult(parsed.err), c, ai.calls, "error", "", "")
        ELSE IF CacheSetRaises(cache_key, wr) # ""
        THEN out(ErrorResult(CacheSetRaises(cache_key, wr)), c, ai.calls,
                 "error", "", wr)
        ELSE out(parsed.val, CacheSet(c, cache_key, parsed.val, t, wr),
                 ai.calls, "fresh", "", wr)

\* JobIntelligence.analyze_match
analyze_match(resume_text, job_description, gem, oai, readok, wr) ==
    LET r == AnalyzeMatch(cache, now, env, resume_text, job_description,
                          gem, oai, readok, wr) IN
    /\ cache' = r.cache
    /\ last' = [NoCall EXCEPT !.op = "analyze_match", !.arg = resume_text,
                              !.arg2 = job_description,
                              !.val = r.val, !.calls = r.calls,
                              !.path = r.path, !.raised = r.raised,
                              !.io = r.io, !.wr = r.wr]
    /\ UNCHANGED <<dbVars, now, env, setAt, procs, file>>

\* what extract_search_profile returns when there is neither client
NoProviderProfile ==
    [PyDict("str", 2) EXCEPT !.has = {"queries", "location"},
                             !.queries = <<"Senior Functional Safety Engineer",
                                           "Safety Architect">>,
                             !.location = "USA"]

\* what extract_search_profile returns from its except branch
ErrorProfile ==
    [PyDict("str", 2) EXCEPT !.has = {"queries", "location"},
                             !.queries = <<"Senior Functional Safety Engineer",
                                           "Safety Systems Engineer">>,
                             !.location = "USA"]

\* the profile returned as the provider sent it
WithQueriesAsSent(result) == result

\* result["queries"] = [result.get("primary_title") or the default], when
\* result.get("queries") is missing or falsy, or is not a list
WithQueries(result) ==
    IF "queries" \in result.has /\ result.queries # <<>>
                                /\ result.queries_type = "list"
    THEN result
    ELSE [result EXCEPT !.has = @ \cup {"queries"},
                        !.size = IF "queries" \in result.has THEN @ ELSE @ + 1,
                        !.queries_type = "list",
                        !.queries = IF result.primary_title # ""
                                    THEN <<result.primary_title>>
                                    ELSE <<"Senior Functional Safety Engineer">>]

\* JobIntelligence.extract_search_profile, as AnalyzeMatch; a parsed value
\* that is no dict has no .get, which raises inside the try
ExtractSearchProfile(c, t, cfg, resume_text, gem, oai, readok, wr) ==
    LET cache_key   == ProfileKey(resume_text)
        cached_data == CacheGet(c, cache_key, t, readok)
        ai          == CallAI(cfg, gem, oai)
        parsed      == JsonLoads(ExtractPayload(ai.text))
        result      == WithQueries(parsed.val)
        out(v, c2, calls, path, exc, w) ==
            [val |-> v, cache |-> c2, calls |-> calls, path |-> path,
             raised |-> exc, io |-> ReadDone(c, cache_key, readok), wr |-> w]
    IN  IF CacheGetRaises(cache_key, readok) # ""
        THEN out(PyNone, c, <<>>, "raise",
                 CacheGetRaises(cache_key, readok), "")
        ELSE IF Truthy(cached_data)
        THEN out(cached_data, c, <<>>, "hit", "", "")
        ELSE IF ~cfg.gemini /\ ~cfg.openai
        THEN out(NoProviderProfile, c, <<>>, "no_provider", "", "")
        ELSE IF ~ai.ok \/ ~parsed.ok \/ parsed.val.type # "dict"
        THEN out(ErrorProfile, c, ai.calls, "error", "", "")
        ELSE IF CacheSetRaises(cache_key, wr) # ""
        THEN out(ErrorProfile, c, ai.calls, "error", "", wr)
        ELSE out(result, CacheSet(c, cache_key, result, t, wr),
                 ai.calls, "fresh", "", wr)

\* JobIntelligence.extract_search_profile
extract_search_profile(resume_text, gem, oai, readok, wr) ==
    LET r == ExtractSearchProfile(cache, now, env, resume_text, gem, oai,
                                  readok, wr) IN
    /\ cache' = r.cache
    /\ last' = [NoCall EXCEPT !.op = "extract_search_profile",
                              !.arg = resume_text,
                              !.val = r.val, !.calls = r.calls,
                              !.path = r.path, !.raised = r.raised,
                              !.io = r.io, !.wr = r.wr]
    /\ UNCHANGED <<dbVars, now, env, setAt, procs, file>>

\* the list under the first of "jobs", "data", "results" of a parsed dict
Unwrapped(v) ==
    IF v.type = "dict" /\ v.has \cap {"jobs", "data", "results"} # {}
    THEN JobsValue
    ELSE v

\* JobIntelligence.scout_jobs as a function; resp is what the Perplexity call
\* does: it raises (ok = FALSE) or answers with a status and a text
ScoutJobs(c, t, cfg, search_query, resp, readok, wr) ==
    LET cache_key   == ScoutKey(search_query)
        cached_data == CacheGet(c, cache_key, t, readok)
        parsed      == JsonLoads(ExtractPayload(resp.text))
        jobs        == Unwrapped(parsed.val)
        out(v, c2, path, exc, w) ==
            [val |-> v, cache |-> c2, path |-> path, raised |-> exc,
             io |-> ReadDone(c, cache_key, readok), wr |-> w]
    IN  IF CacheGetRaises(cache_key, readok) # ""
        THEN out(PyNone, c, "raise", CacheGetRaises(cache_key, readok), "")
        ELSE IF Truthy(cached_data)
        THEN out(cached_data, c, "hit", "", "")
        ELSE IF ~cfg.perplexity
        THEN out(PyList(0), c, "no_provider", "", "")
        ELSE IF ~resp.ok \/ resp.status # 200 \/ ~parsed.ok
        THEN out(PyList(0), c, "error", "", "")
        ELSE IF jobs.type # "list"
        THEN out(PyList(0), c, "error", "", "")
        ELSE IF CacheSetRaises(cache_key, wr) # ""
        THEN out(PyList(0), c, "error", "", wr)
        ELSE out(jobs, CacheSet(c, cache_key, jobs, t, wr), "fresh", "", wr)

\* JobIntelligence.scout_jobs
scout_jobs(search_query, resp, readok, wr) ==
    LET r == ScoutJobs(cache, now, env, search_query, resp, readok, wr) IN
    /\ cache' = r.cache
    /\ last' = [NoCall EXCEPT !.op = "scout_jobs", !.arg = search_query,
                              !.val = r.val, !.path = r.path,
                              !.raised = r.raised,
                              !.io = r.io, !.wr = r.wr]
    /\ UNCHANGED <<dbVars, now, env, setAt, procs, file>>

(***************************************************************************)
(* calculate_local_score.  A text is the set of the maximal runs of        *)
(* characters it is made of: words as they are spelled, and runs of        *)
(* punctuation; the empty set is the empty string.                         *)
(***************************************************************************)
\* str.lower() on the words of the model
Lower(w) == IF w = "Safety" THEN "safety" ELSE w

\* the runs that \w+ matches
IsWord(w) == w # "!!"

\* len(t) of the tokens of the model
TokenLen ==
    [t \in {"safety", "functional", "embedded", "software", "hardware",
            "python", "lead", "iso"} |->
        CASE t = "safety"     -> 6
          [] t = "functional" -> 10
          [] t = "python"     -> 6
          [] t = "lead"       -> 4
          [] t = "iso"        -> 3
          [] OTHER            -> 8]

\* get_tokens: set(re.findall(r'\w+', text.lower()))
get_tokens(text) == {Lower(w) : w \in {x \in text : IsWord(x)}}

domain_keywords ==
    {"safety", "functional", "iso", "sil", "asil", "avionics", "embedded",
     "battery", "hardware", "software"}

Min(a, b) == IF a < b THEN a ELSE b

\* the domain bonus taken from the description alone
TotalDescDomain(resume_text, job_title, job_desc) ==
    LET res_tokens      == get_tokens(resume_text)
        title_tokens    == get_tokens(job_title)
        desc_tokens     == get_tokens(job_desc)
        title_hits      == title_tokens \cap res_tokens
        title_score     == Min(60, Cardinality({t \in title_hits : TokenLen[t] > 3}) * 20)
        tech_hits       == desc_tokens \cap res_tokens
        meaningful_tech == {t \in tech_hits : TokenLen[t] > 4}
        tech_score      == Min(40, Cardinality(meaningful_tech) * 4)
        domain_hits     == (desc_tokens \cap domain_keywords) \cap res_tokens
        domain_bonus    == Cardinality(domain_hits) * 5
    IN  title_score + tech_score + domain_bonus

\* title_score + tech_score + domain_bonus
Total(resume_text, job_title, job_desc) ==
    LET res_tokens      == get_tokens(resume_text)
        title_tokens    == get_tokens(job_title)
        desc_tokens     == get_tokens(job_desc)
        title_hits      == title_tokens \cap res_tokens
        title_score     == Min(60, Cardinality({t \in title_hits : TokenLen[t] > 3}) * 20)
        tech_hits       == desc_tokens \cap res_tokens
        meaningful_tech == {t \in tech_hits : TokenLen[t] > 4}
        tech_score      == Min(40, Cardinality(meaningful_tech) * 4)
        domain_hits     == ((title_tokens \cup desc_tokens) \cap domain_keywords)
                              \cap res_tokens
        domain_bonus    == Cardinality(domain_hits) * 5
    IN  title_score + tech_score + domain_bonus

\* the total returned as it is
Uncapped(total) == total

\* min(95, total)
CapTotal(total) == Min(95, total)

\* a floor above the smallest total that is not floored
SanityFloorAbove(total) == IF total < 10 THEN 15 ELSE CapTotal(total)

\* "if total < 10: return 5", else the capped total
SanityFloor(total) == IF total < 10 THEN 5 ELSE CapTotal(total)

\* JobIntelligence.calculate_local_score as a function
CalculateLocalScore(resume_text, job_title, job_desc) ==
    IF resume_text = {} \/ job_title = {} THEN 0
    ELSE IF get_tokens(job_title) = {} THEN 0
    ELSE SanityFloor(Total(resume_text, job_title, job_desc))

\* JobIntelligence.calculate_local_score; last.arg holds the three texts
calculate_local_score(resume_text, job_title, job_desc) ==
    /\ last' = [NoCall EXCEPT !.op = "calculate_local_score",
                              !.arg = <<resume_text, job_title, job_desc>>,
                              !.id = CalculateLocalScore(resume_text, job_title,
                                                         job_desc)]
    /\ UNCHANGED <<dbVars, now, cache, env, setAt, procs, file>>

(***************************************************************************)
(* Specifications.                                                         *)
(***************************************************************************)
\* the arguments the AI methods are called with
MatchInputs == {<<"ab", "c">>, <<"a", "bc">>, <<"a", "b">>}

Resumes == {"ab"}

Queries == {"safety engineer in USA"}

CacheKeys ==
    DirectKeys \cup {MatchKey(p[1], p[2]) : p \in MatchInputs}
               \cup {ProfileKey(r) : r \in Resumes}
               \cup {ScoutKey(q) : q \in Queries}

NoKeys == [gemini |-> FALSE, openai |-> FALSE, perplexity |-> FALSE,
           rapidapi |-> FALSE]

InitStore ==
    /\ applications = <<>>
    /\ status_history = <<>>
    /\ discovered_jobs = <<>>
    /\ search_terms = {}
    /\ now = 0
    /\ cache = [k \in CacheKeys |-> NoFile]
    /\ last = NoCall
    /\ setAt = [k \in DirectKeys |-> -1]
    /\ procs = [p \in Procs |-> NotCalled]
    /\ file = NoCacheFile

\* The store: every method of ApplicationDatabase that writes
InitDB ==
    /\ InitStore
    /\ env = NoKeys

NextDB ==
    \/ init_database
    \/ \E u \in Urls, ok \in BOOLEAN : add_application(u, ok)
    \/ \E u \in Urls, ok \in BOOLEAN : add_discovered_job(u, ok)
    \/ \E t \in Terms : add_search_term(t, "title")
    \/ \E t \in Terms : delete_search_term(t)
    \/ \E st \in Statuses : update_status(1, st)
    \/ Tick(1)

SpecDB == InitDB /\ [][NextDB]_vars

\* The fetchers and the store they filter through
InitFetch ==
    /\ InitStore
    /\ env \in {[NoKeys EXCEPT !.rapidapi = b] : b \in BOOLEAN}

\* LinkedInScraper.search_jobs: the url of a posting is the href of the
\* card's link, which the browser gives resolved, so it is not empty.
\* IndeedScraper.search_jobs gives "" for a card without a job id
LinkedInResults == {r \in FetchResults : "" \notin SeqToSet(r)}

\* what LinkedInScraper.search_jobs raises when driver.quit() fails in its
\* finally clause
WebDriverException == "WebDriverException"

\* the API answering every page alike: with postings, or rate limited
RepeatedPages ==
    {[k \in 1..MaxPages |-> r] :
        r \in {x \in PageResponses :
                   \/ x.status = 429
                   \/ (x.data # <<>> /\ x.data[1].job_apply_link # "")}}

\* What the sources do in the searches of one job_scrapers.search_jobs
\* call, here of two searches
Searches ==
    [1..2 -> {[pages |-> pg, linkedin |-> l, indeed |-> i] :
                 pg \in {CHOOSE x \in RepeatedPages : x[1].status = 200},
                 l \in LinkedInResults,
                 i \in FetchResults}]

NextFetch ==
    \/ \E u \in Urls, ok \in BOOLEAN : add_application(u, ok)
    \/ \E u \in Urls, ok \in BOOLEAN : add_discovered_job(u, ok)
    \/ \E l \in LinkedInResults, i \in FetchResults, pages \in RepeatedPages :
          search_all_platforms(pages, l, "", i, TRUE)

SpecFetch == InitFetch /\ [][NextFetch]_vars

\* One call of the aggregator, or of job_scrapers.search_jobs over two
\* searches, on a store that is empty or has seen one url: the initial state
\* holds what the sources are going to do (last.arg)
InitDiscover ==
    /\ applications = <<>>
    /\ status_history = <<>>
    /\ discovered_jobs \in {<<>>, InsertDiscovered(<<>>, "u1", 0)}
    /\ search_terms = {}
    /\ now = 0
    /\ cache = [k \in CacheKeys |-> NoFile]
    /\ setAt = [k \in DirectKeys |-> -1]
    /\ procs = [p \in Procs |-> NotCalled]
    /\ file = NoCacheFile
    /\ env \in {[NoKeys EXCEPT !.rapidapi = b] : b \in BOOLEAN}
    /\ \E searches \in Searches : last = [NoCall EXCEPT !.arg = searches]

NextDiscover ==
    \/ /\ last.op = ""
       /\ \E dbok \in BOOLEAN, lraises \in {"", WebDriverException} :
             search_all_platforms(last.arg[1].pages, last.arg[1].linkedin,
                                  lraises, last.arg[1].indeed, dbok)
    \/ /\ last.op = ""
       /\ \E dbok \in BOOLEAN : discover_jobs(last.arg, dbok)

SpecDiscover == InitDiscover /\ [][NextDiscover]_vars

\* The structured-API fetcher and the store
InitApi ==
    /\ InitStore
    /\ env \in {[NoKeys EXCEPT !.rapidapi = b] : b \in BOOLEAN}

NextApi ==
    \/ \E u \in Urls, ok \in BOOLEAN : add_application(u, ok)
    \/ \E u \in Urls, ok \in BOOLEAN : add_discovered_job(u, ok)
    \/ \E pages \in ApiPages, dbok \in BOOLEAN : search_jobs(pages, dbok)
    \/ \E page \in PageResponses, dbok \in BOOLEAN : search_jobs_api(page, dbok)
    \/ \E searches \in ApiPages, dbok \in BOOLEAN :
          search_multiple_titles(searches, dbok)

SpecApi == InitApi /\ [][NextApi]_vars

\* The two fetchers that send HTTP requests themselves, each called once:
\* the initial state holds what the source is going to answer (last.arg) and,
\* for the scraper, the limit (last.arg2)
InitRetry ==
    /\ applications = <<>>
    /\ status_history = <<>>
    /\ discovered_jobs = <<>>
    /\ search_terms = {}
    /\ now = 0
    /\ cache = [k \in CacheKeys |-> NoFile]
    /\ setAt = [k \in DirectKeys |-> -1]
    /\ procs = [p \in Procs |-> NotCalled]
    /\ file = NoCacheFile
    /\ env \in {[NoKeys EXCEPT !.rapidapi = b] : b \in BOOLEAN}
    /\ \/ \E answers \in IndeedAnswers, limit \in IndeedLimits :
             last = [NoCall EXCEPT !.arg = answers, !.arg2 = limit]
       \/ \E pages \in ApiPages : last = [NoCall EXCEPT !.arg = pages]

NextRetry ==
    \/ /\ last.op = ""
       /\ last.arg \in IndeedAnswers
       /\ indeed_search_jobs(last.arg, last.arg2)
    \/ /\ last.op = ""
       /\ last.arg \in ApiPages
       /\ \E dbok \in BOOLEAN : search_jobs(last.arg, dbok)

SpecRetry == InitRetry /\ [][NextRetry]_vars

\* analyze_match run by several processes on the same input, one file
\* operation at a time.  json.dump hands the text to the file object, which
\* passes it to the file in pieces of one buffer each, the last one at close;
\* every open file has its own position
MaxChunks == 2

\* Piece i of the n pieces of the text of one result
Chunk(of, i, n) == [of |-> of, i |-> i, n |-> n]

\* The bytes of a file between its old end and a write past it
Hole == Chunk("", 0, 0)

\* The text json.dump produces for the result named of, n buffers long
Doc(of, n) == [i \in 1..n |-> Chunk(of, i, n)]

\* What _call_ai and json.loads can give for one input: the provider is not
\* deterministic
MatchResults == {Doc(of, n) : of \in {"a", "b"}, n \in 1..MaxChunks}

\* json.load: the text is one JSON document when its pieces are the pieces
\* 1..n of an n-piece text, whichever result each piece comes from
Parses(chunks) ==
    /\ chunks # <<>>
    /\ \A i \in 1..Len(chunks) : chunks[i].i = i /\ chunks[i].n = Len(chunks)

\* CacheManager.get on a file written a moment ago: None (here <<>>) when the
\* file does not exist or does not parse
ReadFile(f) ==
    IF ~f.exists THEN <<>>
    ELSE IF Parses(f.chunks) THEN f.chunks
    ELSE <<>>

\* write() of one piece at position pos of the file
WriteAt(chunks, pos, c) ==
    IF pos <= Len(chunks)
    THEN [chunks EXCEPT ![pos] = c]
    ELSE chunks \o [i \in 1..(pos - Len(chunks) - 1) |-> Hole] \o <<c>>

\* cached_data = self.cache.get(cache_key); if cached_data: return cached_data
match_get(p) ==
    /\ procs[p].pc = "get"
    /\ procs' = IF ReadFile(file) # <<>>
                THEN [procs EXCEPT ![p].pc = "done", ![p].result = ReadFile(file)]
                ELSE [procs EXCEPT ![p].pc = "call"]
    /\ UNCHANGED <<dbVars, now, cache, env, last, setAt, file>>

\* text = self._call_ai(prompt) ... result = json.loads(content.strip())
match_call_ai(p, doc) ==
    /\ procs[p].pc = "call"
    /\ procs' = [procs EXCEPT ![p].pc = "open", ![p].doc = doc]
    /\ UNCHANGED <<dbVars, now, cache, env, last, setAt, file>>

\* CacheManager.set: open(path, 'w') creates or empties the file
set_open(p) ==
    /\ procs[p].pc = "open"
    /\ file' = [exists |-> TRUE, chunks |-> <<>>]
    /\ procs' = [procs EXCEPT ![p].pc = "write", ![p].pos = 1]
    /\ UNCHANGED <<dbVars, now, cache, env, last, setAt>>

\* CacheManager.set: json.dump and the close of the with block write the
\* pieces in order, each at this file object's own position
set_write(p) ==
    /\ procs[p].pc = "write"
    /\ file' = [file EXCEPT !.chunks = WriteAt(@, procs[p].pos, procs[p].doc[procs[p].pos])]
    /\ procs' = [procs EXCEPT ![p].pos = @ + 1,
                              ![p].pc = IF procs[p].pos = Len(procs[p].doc)
                                        THEN "return" ELSE "write"]
    /\ UNCHANGED <<dbVars, now, cache, env, last, setAt>>

\* return result
match_return(p) ==
    /\ procs[p].pc = "return"
    /\ procs' = [procs EXCEPT ![p].pc = "done", ![p].result = procs[p].doc]
    /\ UNCHANGED <<dbVars, now, cache, env, last, setAt, file>>

InitRace ==
    /\ applications = <<>>
    /\ status_history = <<>>
    /\ discovered_jobs = <<>>
    /\ search_terms = {}
    /\ now = 1
    /\ cache = [k \in CacheKeys |-> NoFile]
    /\ setAt = [k \in DirectKeys |-> -1]
    /\ env = [NoKeys EXCEPT !.gemini = TRUE]
    /\ last = NoCall
    /\ procs = [p \in Procs |-> [NotCalled EXCEPT !.pc = "get"]]
    /\ file = NoCacheFile

NextRace ==
    \E p \in Procs :
        \/ match_get(p)
        \/ \E doc \in MatchResults : match_call_ai(p, doc)
        \/ set_open(p)
        \/ set_write(p)
        \/ match_return(p)

SpecRace == InitRace /\ [][NextRace]_vars

\* Several processes, each inside one add_discovered_job, on one database
ConcurrentUrls == {"u1", "u2"}

InitConcurrent ==
    /\ applications = <<>>
    /\ status_history = <<>>
    /\ discovered_jobs \in {<<>>, InsertDiscovered(<<>>, "u1", 0)}
    /\ search_terms = {}
    /\ now = 1
    /\ cache = [k \in CacheKeys |-> NoFile]
    /\ setAt = [k \in DirectKeys |-> -1]
    /\ env = NoKeys
    /\ last = NoCall
    /\ procs \in [Procs -> {[NotCalled EXCEPT !.pc = "connect", !.url = u] :
                                u \in ConcurrentUrls}]
    /\ file = NoCacheFile

NextConcurrent ==
    \E p \in Procs :
        \/ adj_connect(p)
        \/ adj_execute(p)
        \/ adj_locked(p)
        \/ adj_commit(p)
        \/ adj_close(p)

SpecConcurrent == InitConcurrent /\ [][NextConcurrent]_vars

\* The payload extraction on provider texts with up to MaxPieces - 1 fences
MaxPieces == 4

\* what stands between two fences, before the first or after the last
Pieces ==
    {<<>>, <<"\n">>, <<"{match}">>, <<"json", "\n", "{match}", "\n">>,
     <<"json", "{}">>, <<"Here", " ", "it", " ", "is:", "\n">>}

ProviderTexts == UNION {[1..n -> Pieces] : n \in 1..MaxPieces}

InitExtract ==
    /\ applications = <<>>
    /\ status_history = <<>>
    /\ discovered_jobs = <<>>
    /\ search_terms = {}
    /\ now = 0
    /\ cache = [k \in CacheKeys |-> NoFile]
    /\ setAt = [k \in DirectKeys |-> -1]
    /\ procs = [p \in Procs |-> NotCalled]
    /\ file = NoCacheFile
    /\ env = NoKeys
    /\ \E text \in ProviderTexts : last = [NoCall EXCEPT !.arg = text]

NextExtract ==
    /\ last.op = ""
    /\ extract_payload(last.arg)

SpecExtract == InitExtract /\ [][NextExtract]_vars

\* Several discover calls, each with one posting in hand, on one database
InitCheckMark ==
    /\ applications = <<>>
    /\ status_history = <<>>
    /\ discovered_jobs \in {<<>>, InsertDiscovered(<<>>, "u1", 0)}
    /\ search_terms = {}
    /\ now = 1
    /\ cache = [k \in CacheKeys |-> NoFile]
    /\ setAt = [k \in DirectKeys |-> -1]
    /\ env = NoKeys
    /\ last = NoCall
    /\ procs \in [Procs -> {[NotCalled EXCEPT !.pc = "check", !.url = u] :
                                u \in ConcurrentUrls}]
    /\ file = NoCacheFile

NextCheckMark ==
    \E p \in Procs :
        \/ scout_check(p)
        \/ scout_append(p)
        \/ adj_connect(p)
        \/ adj_execute(p)
        \/ adj_locked(p)
        \/ adj_commit(p)
        \/ adj_close(p)

SpecCheckMark == InitCheckMark /\ [][NextCheckMark]_vars

\* The cache alone
InitCache ==
    /\ InitStore
    /\ env = NoKeys

NextCache ==
    \/ \E k \in DirectKeys, ok \in BOOLEAN : cache_get(k, ok)
    \/ \E k \in DirectKeys, v \in DirectValues, wr \in WriteOutcomes :
          cache_set(k, v, wr)
    \/ \E d \in {1, expiry_seconds} : Tick(d)

SpecCache == InitCache /\ [][NextCache]_vars

\* analyze_match alone, with the clock
Plain(doc) == CHOOSE a \in Answers(doc) : Len(a.text) = 1

QuotaFailure == [ok |-> FALSE, err |-> QuotaExceeded, text |-> <<>>]

\* what the Gemini call does; what it raises is logged and seen by no caller
MatchAnswers == {Plain("{match}"), Plain("{}"), NotJson, QuotaFailure}

\* what the OpenAI call does
BackupAnswers == {Plain("{match}")} \cup Failures

\* what the two providers do in one call of _call_ai: the backup's answer
\* matters only when the primary fails or is missing
Outcomes(primary, backup) ==
    {a \in primary \X backup : a[1].ok => a[2] = QuotaFailure}

\* the pairs analyze_match is called with while the clock runs
TimedInputs == {<<"ab", "c">>, <<"a", "b">>}

InitMatch ==
    /\ InitStore
    /\ env \in {[NoKeys EXCEPT !.gemini = g, !.openai = o] : g, o \in BOOLEAN}

NextMatch ==
    \/ \E p \in TimedInputs, a \in Outcomes(MatchAnswers, BackupAnswers),
          readok \in BOOLEAN, wr \in {"ok", "open_fails"} :
          analyze_match(p[1], p[2], a[1], a[2], readok, wr)
    \/ \E d \in {1, expiry_seconds} : Tick(d)

SpecMatch == InitMatch /\ [][NextMatch]_vars

\* The three AI methods and the cache they share, without the clock
Fenced(doc) == CHOOSE a \in Answers(doc) : Len(a.text) > 1

ProfileAnswers ==
    {Plain("{profile}"), Plain("{noqueries}"), Plain("{strqueries}"),
     Plain("{}"), Plain("[]"), NotJson, QuotaFailure}

\* what requests.post does for scout_jobs: it raises, or answers with a
\* status and a text
ScoutResponses ==
    {[ok |-> FALSE, status |-> 0, text |-> <<>>],
     [ok |-> TRUE, status |-> 500, text |-> << <<"[jobs]">> >>],
     [ok |-> TRUE, status |-> 200, text |-> Fenced("[jobs]").text],
     [ok |-> TRUE, status |-> 200, text |-> << <<"{jobs}">> >>],
     [ok |-> TRUE, status |-> 200, text |-> << <<"{match}">> >>]}

InitAI ==
    /\ InitStore
    /\ env \in {[NoKeys EXCEPT !.gemini = g, !.openai = o, !.perplexity = o] :
                    g, o \in BOOLEAN}

NextAI ==
    \/ \E p \in MatchInputs,
          a \in Outcomes({Fenced("{match}"), QuotaFailure}, BackupAnswers),
          readok \in BOOLEAN, wr \in {"ok", "open_fails"} :
          analyze_match(p[1], p[2], a[1], a[2], readok, wr)
    \/ \E r \in Resumes,
          a \in Outcomes(ProfileAnswers, {Plain("{profile}"), QuotaFailure}),
          readok \in BOOLEAN, wr \in {"ok", "open_fails"} :
          extract_search_profile(r, a[1], a[2], readok, wr)
    \/ \E q \in Queries \cup {LoneSurrogate}, resp \in ScoutResponses,
          readok \in BOOLEAN, wr \in WriteOutcomes :
          scout_jobs(q, resp, readok, wr)
    \/ \E k \in {"k1", LoneSurrogate}, readok \in BOOLEAN : cache_get(k, readok)
    \/ \E k \in {"k1", LoneSurrogate}, wr \in WriteOutcomes :
          cache_set(k, PyList(2), wr)

SpecAI == InitAI /\ [][NextAI]_vars

\* calculate_local_score on texts that grow by one word from call to call
ResumeWords ==
    {"safety", "functional", "embedded", "software", "hardware", "python",
     "lead", "iso", "!!"}

TitleWords == {"Safety", "functional", "lead", "!!"}

DescWords == {"software", "hardware", "python", "iso", "embedded"}

\* the texts with word w added to the i-th of them
Extended(texts, i, w) == [texts EXCEPT ![i] = @ \cup {w}]

InitScore ==
    /\ InitStore
    /\ env = NoKeys

NextScore ==
    \E i \in 1..3, w \in ResumeWords \cup TitleWords \cup DescWords :
        LET texts == IF last.op = "" THEN <<{}, {}, {}>> ELSE last.arg
            words == <<ResumeWords, TitleWords, DescWords>>
        IN  /\ w \in words[i] \ texts[i]
            /\ calculate_local_score(Extended(texts, i, w)[1],
                                     Extended(texts, i, w)[2],
                                     Extended(texts, i, w)[3])

SpecScore == InitScore /\ [][NextScore]_vars

(***************************************************************************)
(* Properties.                                                             *)
(***************************************************************************)
\* the urls of the postings a search returned
ReturnedUrls(call) == {call.jobs[i].url : i \in 1..Len(call.jobs)}

\* the rows of discovered_jobs for url u
DiscoveredRows(disc, u) == {disc[i] : i \in SelectByUrl(disc, u)}

\* C1: once add_discovered_job(u) has recorded u, a further
\* add_discovered_job(u), whether or not the database answers, raises
\* nothing, leaves job_seen(u) true, and leaves exactly one discovered row
\* for u, the one that was there, with its first-seen date
C1_RepeatStep ==
    \A u \in Urls :
        (/\ SelectByUrl(discovered_jobs, u) # {}
         /\ last'.op = "add_discovered_job"
         /\ last'.arg = u)
        => /\ last'.raised = ""
           /\ job_seen(u)'
           /\ Cardinality(SelectByUrl(discovered_jobs', u)) = 1
           /\ DiscoveredRows(discovered_jobs', u) = DiscoveredRows(discovered_jobs, u)

C1_MarkSeenIdempotent == [][C1_RepeatStep]_vars

\* add_discovered_job(u) ran again, later than the second in which u was
\* first recorded
C1_Witness ==
    /\ last.op = "add_discovered_job"
    /\ last.io = ""
    /\ \E r \in DiscoveredRows(discovered_jobs, last.arg) : r.discovered_date < now

\* C2: no step of the store makes job_seen(u) false again, and no step
\* removes or rewrites a row of discovered_jobs
C2_KeepStep ==
    /\ \A u \in Urls : job_seen(u) => job_seen(u)'
    /\ Len(discovered_jobs') >= Len(discovered_jobs)
    /\ SubSeq(discovered_jobs', 1, Len(discovered_jobs)) = discovered_jobs

C3_SearchStep ==
    last'.op \in {"search_jobs", "search_all_platforms"}
    => \A u \in Urls : application_exists(u) => u \notin ReturnedUrls(last')

C3_AppliedNeverResurfaces ==
    /\ [](\A u \in Urls : application_exists(u) => job_seen(u))
    /\ [][C3_SearchStep]_vars

\* a scraper returned an applied url that discovered_jobs does not hold, and
\* the search returned other postings but not that one
C3_Witness ==
    /\ last.op = "search_all_platforms"
    /\ last.jobs # <<>>
    /\ \E u \in last.fetched :
          /\ application_exists(u)
          /\ SelectByUrl(discovered_jobs, u) = {}
          /\ u \notin ReturnedUrls(last)

\* C4 as claimed, for a file system that works: a get that follows a set of
\* the same key with no time in between returns the value that was set
C4_AsClaimedStep ==
    (/\ last.op = "set" /\ last.wr = "ok"
     /\ last'.op = "get" /\ last'.io = ""
     /\ last'.arg = last.arg /\ last'.at = last.at)
    => last'.val = last.val

C4_AsClaimed == [][C4_AsClaimedStep]_vars

\* a value made of lists, string-keyed dicts, strings and None only
JsonNative(v) == v.type # "tuple" /\ v.keys \in {"-", "str"}

\* C4, amended: the get returns what json.load reads back from what json.dump
\* wrote for the value of the most recent set, whatever was set before; that
\* is the value itself when it is JSON-native
C4_AmendedStep ==
    (/\ last.op = "set" /\ last.wr = "ok"
     /\ last'.op = "get" /\ last'.io = ""
     /\ last'.arg = last.arg /\ last'.at = last.at)
    => /\ last'.val = JsonLoad(JsonDump(last.val))
       /\ JsonNative(last.val) => last'.val = last.val

C4_RoundTripOfLastSet == [][C4_AmendedStep]_vars

\* a get, later than time 0, returned the list that a set had written in the
\* same second
C4_Witness ==
    /\ last.op = "get" /\ last.io = ""
    /\ last.val = PyList(2)
    /\ cache[last.arg].timestamp = last.at
    /\ last.at > 0

\* C5: a get returns a value only if set was last called on the key no more
\* than expiry_seconds before; it returns one whenever that set wrote the
\* file and the file can be read; and a get leaves every file as it is
C5_GetResult ==
    last.op = "get"
    => /\ last.val # PyNone
          => /\ setAt[last.arg] >= 0
             /\ last.at - setAt[last.arg] <= expiry_seconds
       /\ (/\ cache[last.arg].st = "ok"
           /\ cache[last.arg].timestamp = setAt[last.arg]
           /\ last.io = ""
           /\ last.at - setAt[last.arg] <= expiry_seconds)
          => last.val # PyNone

C5_GetStep == (last'.op = "get" /\ last' # last) => cache' = cache

C5_ExpiredNeverReturned == []C5_GetResult /\ [][C5_GetStep]_vars

\* a get found a readable entry older than expiry_seconds, returned None and
\* left the entry in place
C5_Witness ==
    /\ last.op = "get" /\ last.io = ""
    /\ last.val = PyNone
    /\ cache[last.arg].st = "ok"
    /\ last.at - cache[last.arg].timestamp > expiry_seconds

EmptyCache == [k \in CacheKeys |-> NoFile]

FailedWrites == WriteOutcomes \ {"ok"}

\* With the cache as it is now but every read failing and every write
\* failing, each of the three AI methods returns, calls and raises what it
\* does on a miss of a cache that works
C6_DeadCacheSameAsMiss ==
    /\ \A p \in MatchInputs, gem \in {Fenced("{match}"), QuotaFailure},
          oai \in BackupAnswers, wr \in FailedWrites :
          LET dead == AnalyzeMatch(cache, now, env, p[1], p[2], gem, oai, FALSE, wr)
              miss == AnalyzeMatch(EmptyCache, now, env, p[1], p[2], gem, oai, TRUE, "ok")
          IN  /\ dead.val = miss.val
              /\ dead.calls = miss.calls
              /\ dead.raised = miss.raised
    /\ \A r \in Resumes, gem \in ProfileAnswers, oai \in BackupAnswers,
          wr \in FailedWrites :
          LET dead == ExtractSearchProfile(cache, now, env, r, gem, oai, FALSE, wr)
              miss == ExtractSearchProfile(EmptyCache, now, env, r, gem, oai, TRUE, "ok")
          IN  /\ dead.val = miss.val
              /\ dead.calls = miss.calls
              /\ dead.raised = miss.raised
    /\ \A q \in Queries \cup {LoneSurrogate}, resp \in ScoutResponses,
          wr \in FailedWrites :
          LET dead == ScoutJobs(cache, now, env, q, resp, FALSE, wr)
              miss == ScoutJobs(EmptyCache, now, env, q, resp, TRUE, "ok")
          IN  /\ dead.val = miss.val
              /\ dead.raised = miss.raised

\* C6 as claimed: no call of CacheManager.get or CacheManager.set raises, no
\* call of analyze_match, extract_search_profile or scout_jobs raises, and
\* with a dead cache the three return what they return on an ordinary miss.
\* A key that str.encode() rejects refutes it: _get_cache_path runs before
\* the try of get and of set
C6_AsClaimed ==
    /\ last.op \in {"get", "set", "analyze_match", "extract_search_profile",
                    "scout_jobs"} => last.raised = ""
    /\ C6_DeadCacheSameAsMiss

\* the value analyze_match left in the cache for the arguments of the last call
MatchEntry == cache[_get_cache_path(MatchKey(last.arg, last.arg2))]

\* a call of analyze_match that got an answer from a provider and stored it
StoredAnswer ==
    /\ last.op = "analyze_match"
    /\ last.path = "fresh"
    /\ last.wr = "ok"

\* a second call of analyze_match with the arguments of the last one, no more
\* than expiry_seconds after it, whose read of the cache file works
SecondCallWithinTTL ==
    /\ StoredAnswer
    /\ last' # last
    /\ last'.op = "analyze_match"
    /\ last'.arg = last.arg
    /\ last'.arg2 = last.arg2
    /\ last'.io = ""
    /\ now' - MatchEntry.timestamp <= expiry_seconds

\* C7 as claimed, for a cache whose files can be written and read: when a
\* call of analyze_match has stored a provider's answer, a second call with
\* the same arguments within the TTL calls no provider and returns what the
\* first call returned.  An answer that is falsy in Python ({}) refutes it
C7_AsClaimedStep ==
    SecondCallWithinTTL =>
        /\ last'.calls = <<>>
        /\ last'.path = "hit"
        /\ last'.val = last.val

C7_AsClaimed == [][C7_AsClaimedStep]_vars

\* What does hold of the second call: it is served from the cache when the
\* first answer is truthy
C7_TruthyStep ==
    (SecondCallWithinTTL /\ Truthy(last.val)) =>
        /\ last'.calls = <<>>
        /\ last'.path = "hit"
        /\ last'.val = last.val

C7_TruthyAnswerServedFromCache == [][C7_TruthyStep]_vars

\* C8 as claimed: with neither client and no cache entry, analyze_match
\* returns score 0, the verdict of the no-provider case, and strengths and
\* gaps that are not empty.  The code returns score 50 and two empty lists
C8_AsClaimed ==
    (/\ last.op = "analyze_match"
     /\ ~env.gemini /\ ~env.openai
     /\ MatchEntry.st = "absent") =>
        /\ last.val.score = 0
        /\ last.val.verdict = NoProviderResult.verdict
        /\ last.val.strengths # <<>>
        /\ last.val.gaps # <<>>

\* every provider that the last call reached failed, and it reached one
AllCallsFailed ==
    /\ last.calls # <<>>
    /\ \A i \in 1..Len(last.calls) : ~last.calls[i].ok

\* C9: when analyze_match called at least one provider and every call
\* failed, it raises nothing and returns score 0, strengths and gaps that are
\* not empty, and a verdict that tells the failure and is not the verdict of
\* the no-provider case
C9_AllProvidersFail ==
    (last.op = "analyze_match" /\ AllCallsFailed) =>
        /\ last.raised = ""
        /\ last.val.score = 0
        /\ last.val.strengths # <<>>
        /\ last.val.gaps # <<>>
        /\ last.val.verdict # NoProviderResult.verdict
        /\ last.val.verdict \in
              {ModelMismatchVerdict} \cup
              {"AI Matcher Error: " \o e :
                  e \in {ModelNotFound, QuotaExceeded, NoProvidersAvailable}}

\* analyze_match after both providers failed
C9_Witness ==
    /\ last.op = "analyze_match"
    /\ env.gemini /\ env.openai
    /\ last.calls = <<[name |-> "gemini", ok |-> FALSE],
                      [name |-> "openai", ok |-> FALSE]>>
    /\ last.path = "error"
    /\ last.val.score = 0

\* C10: within one call of analyze_match or extract_search_profile, only
\* clients that exist are called, Gemini before OpenAI, each at most once,
\* OpenAI only if there is no Gemini client or its call failed, and none
\* after a call that succeeded
C10_FallbackOrder ==
    last.op \in {"analyze_match", "extract_search_profile"} =>
        LET cs == last.calls IN
        /\ \A i \in 1..Len(cs) : cs[i].name \in {"gemini", "openai"}
        /\ \A i \in 1..Len(cs) : cs[i].name = "gemini" => env.gemini
        /\ \A i \in 1..Len(cs) : cs[i].name = "openai" => env.openai
        /\ \A i, j \in 1..Len(cs) : cs[i].name = cs[j].name => i = j
        /\ \A i, j \in 1..Len(cs) :
              (cs[i].name = "gemini" /\ cs[j].name = "openai") => i < j
        /\ (env.gemini /\ cs # <<>>) => cs[1].name = "gemini"
        /\ \A j \in 1..Len(cs) :
              cs[j].name = "openai" =>
                  \/ ~env.gemini
                  \/ \E i \in 1..(j - 1) : cs[i].name = "gemini" /\ ~cs[i].ok
        /\ \A i, j \in 1..Len(cs) : i < j => ~cs[i].ok

\* a call that fell back: Gemini failed, then OpenAI answered
C10_Witness ==
    /\ last.op \in {"analyze_match", "extract_search_profile"}
    /\ last.calls = <<[name |-> "gemini", ok |-> FALSE],
                      [name |-> "openai", ok |-> TRUE]>>
    /\ last.path = "fresh"

\* the last call got a text from Gemini that json.loads rejected
PrimaryUnparseable ==
    /\ last.op = "analyze_match"
    /\ last.path = "error"
    /\ last.calls # <<>>
    /\ last.calls[1] = [name |-> "gemini", ok |-> TRUE]

\* C11 as claimed: when the text Gemini returned cannot be parsed and there
\* is an OpenAI client, analyze_match calls OpenAI before it returns the
\* failure result.  _call_ai returns on the first text it gets and
\* analyze_match parses after _call_ai has returned, so OpenAI is not called
C11_AsClaimed ==
    (PrimaryUnparseable /\ env.openai) =>
        \E i \in 1..Len(last.calls) : last.calls[i].name = "openai"

\* the cache key of the request of the last call
RequestKey ==
    IF last.op = "analyze_match" THEN MatchKey(last.arg, last.arg2)
    ELSE ProfileKey(last.arg)

\* the last call returned what a provider sent and json.loads parsed, and its
\* cache write did not fail
ReturnedProviderResult ==
    /\ last.op \in {"analyze_match", "extract_search_profile"}
    /\ last.path = "fresh"
    /\ last.wr = "ok"

\* C12: when analyze_match or extract_search_profile returns a result it got
\* from a provider and parsed, and the cache write did not fail, a get of the
\* request's key at return time yields the value returned
C12_StoredBeforeReturn ==
    ReturnedProviderResult =>
        CacheGet(cache, RequestKey, now, TRUE) = last.val

\* extract_search_profile returned a provider's profile, stored under its key
C12_Witness ==
    /\ last.op = "extract_search_profile"
    /\ last.path = "fresh"
    /\ last.wr = "ok"
    /\ last.val = ProfileValue
    /\ cache[_get_cache_path(ProfileKey(last.arg))].st = "ok"

\* a profile with a queries list of at least one element
HasQueries(v) ==
    /\ v.type = "dict"
    /\ "queries" \in v.has
    /\ v.queries_type = "list"
    /\ Len(v.queries) >= 1

\* C13: whatever extract_search_profile returns has a queries list that is
\* not empty, and so has every value stored under a profile key
C13_QueriesNeverEmpty ==
    /\ (last.op = "extract_search_profile" /\ last.raised = "") =>
          HasQueries(last.val)
    /\ \A r \in Resumes :
          LET f == cache[_get_cache_path(ProfileKey(r))] IN
          f.st = "ok" => HasQueries(JsonLoad(f.value))

\* extract_search_profile replaced a queries field that was missing or no
\* list by the default list and returned it
C13_Witness ==
    /\ last.op = "extract_search_profile"
    /\ last.path = "fresh"
    /\ last.calls # <<>>
    /\ last.val.queries = <<"Senior Functional Safety Engineer">>
    /\ "primary_title" \notin last.val.has

\* C14: every score calculate_local_score returns is an integer from 0 to 95
C14_ScoreInRange ==
    last.op = "calculate_local_score" => last.id \in 0..95

\* a call whose title, description and domain points add up to more than 95
\* returned 95
C14_Witness ==
    /\ last.op = "calculate_local_score"
    /\ Total(last.arg[1], last.arg[2], last.arg[3]) > 95
    /\ last.id = 95

\* C15: a call whose texts are those of the call before with one more word in
\* one of them, and so with one more shared token or as many, returns a score
\* that is not lower
C15_GrowStep ==
    (last.op = "calculate_local_score" /\ last'.op = "calculate_local_score"
     /\ \E i \in 1..3 : \E w \in ResumeWords \cup TitleWords \cup DescWords :
           /\ w \notin last.arg[i]
           /\ last'.arg = Extended(last.arg, i, w))
    => last'.id >= last.id

C15_MonotoneInSharedTokens == [][C15_GrowStep]_vars

\* a call scored above the floor whose description, less one shared token,
\* is floored at 5
C15_Witness ==
    /\ last.op = "calculate_local_score"
    /\ last.id >= 10
    /\ \E w \in last.arg[3] :
          /\ Lower(w) \in get_tokens(last.arg[1])
          /\ CalculateLocalScore(last.arg[1], last.arg[2], last.arg[3] \ {w}) = 5

(***************************************************************************)
(* job_api_search.py: the page loop of JobAPISearch.search_jobs            *)
(***************************************************************************)

\* page k is the first page whose request ends the loop or fails, and it
\* answers 429
RateLimitedAt(pages, k) ==
    /\ pages[k].status = 429
    /\ \A j \in 1..(k - 1) : pages[j].status \notin {429, 0}

\* page k answers a status other than 200 and 429, no earlier request was
\* rate limited or failed, and the budget has a page after k
SkippedAt(pages, k) ==
    /\ k < Len(pages)
    /\ pages[k].status \notin {200, 429, 0}
    /\ \A j \in 1..(k - 1) : pages[j].status \notin {429, 0}

\* a search_jobs call made with an API key configured
KeyedSearchStep == last'.op = "search_jobs" /\ env.rapidapi

\* C16: when page k answers 429, search_jobs sent exactly k requests, raised
\* nothing and returns the postings the pages before k contributed
C16_AsClaimedStep ==
    KeyedSearchStep
    => \A k \in 1..Len(last'.arg) :
          RateLimitedAt(last'.arg, k)
          => /\ last'.raised = ""
             /\ last'.id = k
             /\ last'.jobs = PagesLoop(applications, discovered_jobs,
                                       SubSeq(last'.arg, 1, k - 1), 1, now, <<>>,
                                       last'.io = "").jobs

C16_AsClaimed == [][C16_AsClaimedStep]_vars

\* C17: when page k answers a status other than 200 and 429, search_jobs
\* still requests page k+1, and the unseen postings of every successful page
\* it reaches are in the result
C17_AsClaimedStep ==
    KeyedSearchStep
    => \A k \in 1..Len(last'.arg) :
          SkippedAt(last'.arg, k)
          => /\ last'.id >= k + 1
             /\ \A j \in (k + 1)..Len(last'.arg) :
                   ( /\ last'.arg[j].status = 200
                     /\ \A i \in 1..j : last'.arg[i].status \notin {429, 0} )
                   => \A u \in SeqToSet(ApiUrls(last'.arg[j].data)) :
                         ~job_seen(u) => u \in ReturnedUrls(last')

C17_AsClaimed == [][C17_AsClaimedStep]_vars

\* C18: search_jobs returns a result in which every posting was unseen when
\* the call began, no two postings share a url, and every returned url is
\* recorded as seen when the call returns
C18_AsClaimedStep ==
    KeyedSearchStep
    => /\ last'.raised = ""
       /\ \A u \in ReturnedUrls(last') : ~job_seen(u) /\ job_seen(u)'
       /\ \A i, j \in 1..Len(last'.jobs) :
             last'.jobs[i].url = last'.jobs[j].url => i = j

C18_AsClaimed == [][C18_AsClaimedStep]_vars

\* C19: with an API key configured, search_jobs, search_jobs_api and
\* search_multiple_titles return to their caller without raising, whatever
\* the pages answer
C19_AsClaimedStep ==
    ( /\ last'.op \in {"search_jobs", "search_jobs_api", "search_multiple_titles"}
      /\ env.rapidapi )
    => last'.raised = ""

C19_AsClaimed == [][C19_AsClaimedStep]_vars

\* table discovered_jobs holds a row whose job_url is empty
EmptyUrlStored ==
    \E i \in 1..Len(discovered_jobs) : discovered_jobs[i].job_url = ""

\* C20: no search returns a posting whose url is empty, and no search adds a
\* row with an empty job_url to table discovered_jobs
C20_AsClaimedStep ==
    last'.op \in {"search_jobs", "search_all_platforms"}
    => /\ "" \notin ReturnedUrls(last')
       /\ EmptyUrlStored' => EmptyUrlStored

C20_AsClaimed == [][C20_AsClaimedStep]_vars

(***************************************************************************)
(* job_scrapers.py: the retry loop of IndeedScraper.search_jobs            *)
(***************************************************************************)
IndeedCalled == last.op = "indeed_search_jobs"

\* the site's answer to the n-th request of the call
Answer(n) == last.arg[n]

IsRateLimit(response) == response.exc = "" /\ response.status = 429

\* a timeout, a connection error, or a status other than 200 and 429
IsTransient(response) ==
    response.exc # "" \/ response.status \notin {200, 429}

\* the position of the n-th request among the steps of the call
ReqIndex(n) ==
    CHOOSE i \in Requests(last.calls) :
        Cardinality({j \in Requests(last.calls) : j <= i}) = n

\* the seconds slept right after the n-th request, 0 if the next step is not
\* a sleep
WaitAfter(n) ==
    LET i == ReqIndex(n) IN
    IF i < Len(last.calls) /\ last.calls[i + 1].ev = "sleep"
    THEN last.calls[i + 1].secs
    ELSE 0

\* the page has a card, under some selector, in which some strategy finds a
\* title and some strategy finds a company
Extractable(response) ==
    /\ response.exc = "" /\ response.status = 200
    /\ \E sl \in 1..3 : \E c \in 1..Len(response.sel[sl]) :
          /\ \E t \in 1..3 : response.sel[sl][c].title[t] # <<>>
          /\ \E t \in 1..3 : response.sel[sl][c].company[t] # <<>>

\* C21: a call of IndeedScraper.search_jobs sends at most 3 requests, comes
\* to its return without raising, and returns no posting when no request it
\* sent was answered with a page that has an extractable card
C21_BoundedRetry ==
    IndeedCalled
    => /\ last.id <= 3
       /\ last.raised = ""
       /\ last.calls[Len(last.calls)] = Sleep(2)
       /\ (\A n \in 1..last.id : ~Extractable(Answer(n))) => last.jobs = <<>>

\* three requests were sent, none answered with cards
C21_Witness ==
    /\ IndeedCalled
    /\ last.id = 3
    /\ last.jobs = <<>>
    /\ \E n \in 1..3 : Answer(n).exc = "Timeout"
    /\ \E n \in 1..3 : IsRateLimit(Answer(n))

\* C22: a 429 on attempt n < 3 is followed by a sleep of 5 * n seconds and
\* then by the next request, and a later 429 waits strictly longer
C22_RateLimitBackoff ==
    IndeedCalled
    => /\ \A n \in 1..2 :
             (n <= last.id /\ IsRateLimit(Answer(n)))
             => /\ last.id >= n + 1
                /\ WaitAfter(n) = 5 * n
                /\ last.calls[ReqIndex(n) + 2] = Request
       /\ \A n, m \in 1..last.id :
             (n < m /\ IsRateLimit(Answer(n)) /\ IsRateLimit(Answer(m)))
             => WaitAfter(n) < WaitAfter(m)

\* attempts 1 and 2 were both rate limited and a third request was sent
C22_Witness ==
    /\ IndeedCalled
    /\ IsRateLimit(Answer(1)) /\ IsRateLimit(Answer(2))
    /\ last.id = 3
    /\ WaitAfter(1) = 5 /\ WaitAfter(2) = 10

\* C23: when attempts 1 and 2 both end in a timeout or a transient HTTP
\* error, the wait before the retry after attempt 2 is strictly longer than
\* the wait after attempt 1
C23_AsClaimed ==
    ( /\ IndeedCalled
      /\ last.id = 3
      /\ IsTransient(Answer(1)) /\ IsTransient(Answer(2)) )
    => WaitAfter(2) > WaitAfter(1)

\* the first of the alternatives that found something, <<>> if none did
FirstHit(alts) ==
    IF \E i \in 1..Len(alts) : alts[i] # <<>>
    THEN alts[CHOOSE i \in 1..Len(alts) :
                 alts[i] # <<>> /\ \A j \in 1..(i - 1) : alts[j] = <<>>]
    ELSE <<>>

\* the cards, among those examined, in which a title and a company are found
Emitted(cards) ==
    SelectSeq(cards, LAMBDA c : FirstHit(c.title) # <<>> /\ FirstHit(c.company) # <<>>)

AllSources == {"api", "linkedin", "indeed", "glassdoor", "ziprecruiter"}

\* the sources of the call that raised
FailedSources(call) ==
    {call.calls[i].source : i \in {j \in 1..Len(call.calls) : call.calls[j].raised # ""}}

\* the sources of the call that were invoked
InvokedSources(call) == {call.calls[i].source : i \in 1..Len(call.calls)}

\* C26: whatever the API fetcher and the LinkedIn scraper do (raise, return
\* nothing), search_all_platforms raises nothing, invokes every source, and
\* returns the unseen postings of every scraper that returned
C26_IsolationStep ==
    (last.op = "" /\ last'.op = "search_all_platforms")
    => /\ last'.raised = ""
       /\ InvokedSources(last') = AllSources
       /\ \A u \in SeqToSet(last.arg[1].indeed) :
             ~job_seen(u) => u \in ReturnedUrls(last')
       /\ "linkedin" \notin FailedSources(last')
          => \A u \in SeqToSet(last.arg[1].linkedin) :
                ~job_seen(u) => u \in ReturnedUrls(last')

C26_FailureIsolation == [][C26_IsolationStep]_vars

\* the API fetcher and the LinkedIn scraper both raised, and the posting of
\* the Indeed scraper is in the result
C26_Witness ==
    /\ last.op = "search_all_platforms"
    /\ FailedSources(last) = {"api", "linkedin"}
    /\ last.raised = ""
    /\ \E i \in 1..Len(last.jobs) : last.jobs[i].platform = "Indeed"

\* in the first search of the call the LinkedIn scraper and the Indeed
\* scraper both return url, which is not empty and not seen
ReturnedByBoth(url) ==
    /\ url # ""
    /\ ~job_seen(url)
    /\ url \in SeqToSet(last.arg[1].linkedin)
    /\ url \in SeqToSet(last.arg[1].indeed)
    /\ "linkedin" \notin FailedSources(last')

\* C27: when two sources return a posting with the same url in one call, the
\* result holds exactly one posting with that url, the one of the first
\* source
C27_AsClaimedStep ==
    (last.op = "" /\ last'.op \in {"search_all_platforms", "discover_jobs"})
    => \A u \in Urls :
          ReturnedByBoth(u)
          => /\ Cardinality({i \in 1..Len(last'.jobs) : last'.jobs[i].url = u}) = 1
             /\ \A i \in 1..Len(last'.jobs) :
                   last'.jobs[i].url = u => last'.jobs[i].platform = "LinkedIn"

C27_AsClaimed == [][C27_AsClaimedStep]_vars

\* C28: every url of a posting that a search returns is recorded in the
\* store when the search returns
C28_AsClaimedStep ==
    last'.op \in {"search_jobs", "search_all_platforms"}
    => \A u \in ReturnedUrls(last') : job_seen(u)'

C28_AsClaimed == [][C28_AsClaimedStep]_vars

\* Processes that called add_discovered_job with the url
CallersOf(url) == {p \in Procs : procs[p].url = url}

AllReturned == \A p \in Procs : procs[p].pc = "done"

\* C29: when the processes that write to the store at the same time all run
\* add_discovered_job on the same url, none of the calls raises to its caller,
\* and once all of them have returned the store holds exactly one row with
\* the url and job_seen answers true for it
C29_ConcurrentMarkSeen ==
    /\ \A p \in Procs : procs[p].raised = ""
    /\ \A url \in ConcurrentUrls :
          (AllReturned /\ CallersOf(url) = Procs)
              => /\ Cardinality(SelectByUrl(discovered_jobs, url)) = 1
                 /\ job_seen(url)

\* Two processes ran on the same new url at the same time, one found the
\* database locked, and all have returned
C29_Witness ==
    /\ AllReturned
    /\ \E p, q \in Procs :
          /\ p # q
          /\ procs[p].url = procs[q].url
          /\ procs[p].inserted
          /\ procs[q].logged = DatabaseIsLocked

\* A result as one call of the provider gave it
Complete(value) == value \in MatchResults

\* The results the provider gave to the processes
Written == {procs[p].doc : p \in Procs} \ {<<>>}

\* C30: two analyze_match calls on the same input at the same time call the
\* provider at most twice, each returns a complete result, and once both have
\* returned a read of the cache gives nothing or one complete result that one
\* of the two wrote, never a mixture of the two and never a part of one
C30_AsClaimed ==
    /\ Cardinality({p \in Procs : procs[p].doc # <<>>}) <= 2
    /\ \A p \in Procs : procs[p].pc = "done" => Complete(procs[p].result)
    /\ AllReturned => \/ ReadFile(file) = <<>>
                      \/ ReadFile(file) \in Written

\* The fields of a Posting, under the names the code gives them
PostingFields ==
    {"url", "title", "company", "location", "description", "platform", "posted_date"}

\* C31: every posting search_all_platforms returns, whichever source it comes
\* from, has every Posting field (url, title, company, location, description,
\* platform, posted date); no field is left out
C31_AsClaimed ==
    last.op = "search_all_platforms"
        => \A i \in 1..Len(last.jobs) :
              PostingFields \subseteq PostingKeys(last.jobs[i].platform)

\* The reference formula on the texts of the last call
SharedTitle == {t \in get_tokens(last.arg[2]) :
                    t \in get_tokens(last.arg[1]) /\ TokenLen[t] > 3}

SharedText == {t \in get_tokens(last.arg[3]) :
                   t \in get_tokens(last.arg[1]) /\ TokenLen[t] > 4}

SharedKeywords ==
    {k \in domain_keywords :
        /\ k \in get_tokens(last.arg[1])
        /\ k \in get_tokens(last.arg[2]) \/ k \in get_tokens(last.arg[3])}

Raw == Min(60, 20 * Cardinality(SharedTitle)) + Min(40, 4 * Cardinality(SharedText))
           + 5 * Cardinality(SharedKeywords)

Untagged(body) ==
    IF body # <<>> /\ Head(body) = "json" THEN Tail(body) ELSE body

\* the pieces of a text that stand between an opening fence and its closing
\* fence: fences pair up from the left, so these are pieces 2, 4, ...
EnclosedBodies(text) ==
    {Strip(Untagged(text[i])) : i \in {j \in 2..(Len(text) - 1) : j % 2 = 0}}

\* C33: when the provider's text has fences, the payload handed to the JSON
\* parser is a body enclosed between an opening and a closing fence, less an
\* optional leading json tag, however many fences there are and wherever they
\* stand; without a fence it is the trimmed text
C33_AsClaimed ==
    last.op = "extract_payload" =>
        IF Len(last.arg) > 1
        THEN last.arg2 \in EnclosedBodies(StripText(last.arg))
        ELSE last.arg2 = Strip(last.arg[1])

\* the same for texts in which every fence has its partner
PairedFencesExtract ==
    (last.op = "extract_payload" /\ Len(last.arg) % 2 = 1) =>
        IF Len(last.arg) > 1
        THEN last.arg2 \in EnclosedBodies(StripText(last.arg))
        ELSE last.arg2 = Strip(last.arg[1])

\* the pair of texts a call of analyze_match was made with
PairOf(call) == <<call.arg, call.arg2>>

\* C34 as claimed: two different (resume_text, job_description) pairs never
\* have the same cache key, so when a call of analyze_match has just stored a
\* provider's answer for one pair, a hit of the next call, made with another
\* pair, is not served from the file that answer was stored in.  Pairs whose
\* concatenations are equal refute it: the key is made from
\* resume_text + job_description
C34_AsClaimedStep ==
    (/\ StoredAnswer
     /\ last'.op = "analyze_match"
     /\ PairOf(last') # PairOf(last)
     /\ last'.path = "hit")
    => _get_cache_path(MatchKey(last'.arg, last'.arg2))
          # _get_cache_path(MatchKey(last.arg, last.arg2))

C34_AsClaimed == [][C34_AsClaimedStep]_vars

\* a call of one of the three AI methods that returned on a failure path:
\* no provider configured, or the provider failed, answered with another
\* status than 200 or with a text that does not parse
Degraded(call) ==
    /\ call.op \in {"analyze_match", "extract_search_profile", "scout_jobs"}
    /\ call.path \in {"no_provider", "error"}

\* the provider the method of a call uses is configured
Configured(call) ==
    IF call.op = "scout_jobs" THEN env.perplexity ELSE env.gemini \/ env.openai

\* a call of the same method with the same input follows, and its read of
\* the cache does not fail
SameRequestFollows ==
    /\ last'.op = last.op
    /\ PairOf(last') = PairOf(last)
    /\ last'.io = ""
    /\ Configured(last)

\* C35 as claimed: a call that returns on a failure path writes nothing to
\* the cache, and a later call with the same input is not served from the
\* cache but goes to the provider.  A degraded call whose read of a good
\* entry failed refutes the second half: the later call is a hit
C35_AsClaimedStep ==
    /\ Degraded(last') => cache' = cache
    /\ (Degraded(last) /\ SameRequestFollows) => last'.path \in {"fresh", "error"}

C35_DegradedStep ==
    /\ Degraded(last') => cache' = cache
    /\ (Degraded(last) /\ last.io = "" /\ SameRequestFollows)
          => last'.path \in {"fresh", "error"}

IsMatchResult(v) ==
    /\ v.type = "dict"
    /\ {"score", "verdict", "strengths", "gaps"} \subseteq v.has
    /\ v.score \in 0..100

\* C36 as claimed: whatever analyze_match returns, on a cache hit, after a
\* provider's answer that parses, without a provider or after a failure, is
\* a MatchResult, and analyze_match never raises.  A provider answer that is
\* valid JSON of another shape refutes it: json.loads's value is returned as
\* it is
C36_AsClaimed ==
    last.op = "analyze_match" =>
        /\ last.raised = ""
        /\ IsMatchResult(last.val)

\* the same for the paths that do not return a provider's text
DegradedIsMatchResult ==
    (last.op = "analyze_match" /\ last.path \in {"no_provider", "error"}) =>
        /\ last.raised = ""
        /\ IsMatchResult(last.val)

\* the processes whose call returns the url as a new posting
ReturnedAsNew(url) == {p \in Procs : procs[p].result = <<url>>}

\* C37 as claimed: when two discover calls run at the same time on one store
\* and both are handed a posting with the same url, at most one of them
\* returns it as new, however their job_seen and add_discovered_job steps
\* interleave.  Both checks can run before either insert is committed
C37_AsClaimed ==
    \A url \in ConcurrentUrls : Cardinality(ReturnedAsNew(url)) <= 1

\* what does hold: the store ends with one row for the url
OneRowAfterCheckMark ==
    \A url \in ConcurrentUrls :
        Cardinality(SelectByUrl(discovered_jobs, url)) <= 1

====
